---- MODULE Spec2Model ----
(***************************************************************************)
(* A model of the secret synchronization engine of ohauer/secrets-sync:    *)
(* the Scheduler (package syncer), the part of SyncSecret and              *)
(* FetchSecretWithRetry a job goroutine walks through, the atomic file     *)
(* writer (internal/filewriter/writer.go), the life cycle of run()         *)
(* (cmd/secrets-sync/main.go) with its result monitor and its reloads, and *)
(* the path checks of config.Validate.                                     *)
(***************************************************************************)
EXTENDS Integers, Sequences, FiniteSets, TLC

(***************************************************************************)
(* Bounds of the model.                                                    *)
(***************************************************************************)
\* job objects AddSecret may allocate in one behaviour
MaxJobs == 2
\* capacity of the results channel (NewScheduler makes it 100), scaled down
ResultsCap == 2
\* RetryConfig.MaxRetries (run() sets 3), scaled down
MaxRetries == 1
\* concurrent WriteFile calls on the target path
NumWriters == 2
\* bytes of a content
ContentLen == 2
\* goroutines that call getOrCreateClient at the same time
NumCallers == 2
\* clients the factory makes in one behaviour
MaxClients == 3
\* Settings.MaxRequests of the circuit breaker
BrkMaxRequests == 1
\* requests the circuit breaker counts in one generation
MaxCounted == 4
\* largest RetryConfig.InitialBackoff and RetryConfig.MaxBackoff of a call
MaxDelay == 3
\* largest RetryConfig.MaxRetries of a call
MaxCfgRetries == 2
\* longest mode string given to ParseMode
MaxModeLen == 4
\* most directories in outputDirs
MaxDirs == 2
\* most templates and most files of a secret
MaxTemplates == 2
MaxFiles == 2
\* MaxPathLen, the longest path validatePath accepts, scaled down
MaxPathLen == 3
\* longest File.Path of a configuration
MaxCfgPathLen == 3
\* Schedulers run() makes in one behaviour
MaxScheds == 2
\* largest refreshInterval of a secret, in units of the smallest
MaxInterval == 2
\* successful results the monitor counts in one behaviour
MaxSynced == 2

Names == {"A", "B"}
NoName == "none"
JobIds == 1..MaxJobs
NoJob == 0

(***************************************************************************)
(* State of the Scheduler and of its job goroutines.                       *)
(***************************************************************************)
VARIABLES
  jobs,          \* Scheduler.jobs: secret name -> job object (NoJob: no entry)
  secret,        \* job.secret.Name of each job object (NoName: not allocated)
  ticker,        \* job.ticker: "none" | "active" | "stopped"
  jobStopCh,     \* job.stopCh is closed
  stopCh,        \* Scheduler.stopCh is closed
  stopPc,        \* where the caller of Stop() is: "idle" | "closed" | "returned"
  results,       \* Scheduler.results: the buffered SyncResults
  resultsClosed, \* Scheduler.results is closed
  pc,            \* where the goroutine of each job object is
  attempt,       \* FetchSecretWithRetry's loop variable of each goroutine
  err,           \* the goroutine's SyncSecret call returned a non-nil error
  lastSync,      \* job.lastSync: "zero" | "set"
  ev,            \* history: what the last step did, when a claim asks
  mpc,           \* where run() is
  exitCause,     \* why run() returned
  fname,         \* the directory: file name -> inode (NoInode: no such file)
  idata,         \* the bytes of each inode
  wpc,           \* where each WriteFile call is
  wtmp,          \* the temp file name each WriteFile call drew
  wfd,           \* the inode each WriteFile call has open
  wpos,          \* the bytes each WriteFile call has written
  rpc,           \* where the reader of the target path is
  rfd,           \* the inode the reader has open
  rbuf,          \* the bytes the reader has read
  committed,     \* history: the contents WriteFile calls have renamed into place
  cfgPath,       \* config.Path of the WriteFile calls, a sequence of characters
  wsize,         \* len(content) of each WriteFile call
  ttype,         \* what the target path names: "absent" | "regular" | "symlink" | "special" | "dir"
  pdir,          \* the directory of the target path exists
  clientPool,    \* SecretSyncer.clientPool: credential set name -> client
  gpc,           \* where each caller of getOrCreateClient is
  gname,         \* the credName of each caller
  gclient,       \* the client each caller holds
  nclients,      \* the clients the factory has made and authenticated
  returned,      \* history: the clients returned for each credential set name
  pfatal,        \* the runtime has ended the process with a fatal error
  bstate,        \* the circuit breaker's state: "closed" | "half-open" | "open"
  bcounts,       \* the circuit breaker's counts of the current generation
  bexpired,      \* the expiry of the breaker's state has passed
  cpc,           \* where each caller of executeWithBreaker is
  cstale,        \* the call began in an earlier generation of the breaker
  cfailed,       \* the caller's own network read has failed at least once
  fcfg,          \* FetchSecretWithRetry's config argument
  fpc,           \* where the call of FetchSecretWithRetry is
  fattempt,      \* its loop variable attempt
  fbackoff,      \* its variable backoff
  flastErr,      \* its variable lastErr
  fwoke,         \* the case that has ended the wait in its select
  fresult,       \* what the call has returned
  ctxDone,       \* the call's context is cancelled
  fwaits,        \* history: the delays the call has waited or is waiting
  flog,          \* history: the outcomes of its FetchSecret calls
  fcancelAt,     \* history: where the call was when its context was cancelled
  mstr,          \* ParseMode's argument, a sequence of characters
  mres,          \* what ParseMode has returned
  sdirs,         \* CleanupOrphanedTempFiles' argument outputDirs
  sdir,          \* the output directory: file name -> "none" | "file" | "busy"
  spc,           \* where the sweep is
  si,            \* the index of the directory the sweep is at
  smatches,      \* the matches of the glob the sweep has still to remove
  sruns,         \* the sweeps that have returned
  sremoved,      \* history: the names the sweeps have removed
  ytmpls,        \* secret.Template.Data as listed in the configuration
  yfiles,        \* secret.Files
  ynsSecret,     \* the namespace key of the secret in the YAML configuration
  ynsStore,      \* the namespace key of secretStore in the YAML configuration
  ynamespace,    \* the namespace SyncSecret has resolved for the fetch
  ypc,           \* where the SyncSecret call is
  yi,            \* the index of its loop over the files
  yerr,          \* the error it has returned
  yfetches,      \* history: the fetches from the store it has made
  ywrote,        \* history: the content it has written to each file
  lpc,           \* where the caller of GetLastSyncTime is
  lname,         \* its argument
  lret,          \* what the last call has returned
  vcwd,          \* the working directory of the process
  vsame,         \* the two file entries belong to one secret
  vpaths,        \* File.Path of the two file entries of the configuration
  vpc,           \* where the call of config.Validate is
  verr,          \* the error it has returned
  cfg,           \* run()'s cfg: secret name -> refresh interval (0: not configured)
  scheduler,     \* run()'s scheduler: the number of the Scheduler it points to
  schedJobs,     \* its job table: secret name -> interval of the job (0: no job)
  schedResults,  \* the results channel of each Scheduler
  syncedCount,   \* syncedCount of the monitor goroutine
  status,        \* the health.Status
  sigpc,         \* the signal loop of run(): "loop" | "exited"
  reloaded,      \* the reload the last step has handled, if it was one
  everSynced     \* history: a SyncSecret of a job has succeeded

tblVars == <<jobs, secret, ticker, jobStopCh, stopCh, stopPc>>
chanVars == <<results, resultsClosed>>
goVars == <<pc, attempt, err, lastSync>>
schedVars == <<tblVars, chanVars, goVars, ev>>
mainVars == <<mpc, exitCause>>
wInputs == <<cfgPath, wsize>>
fileVars == <<fname, idata, wpc, wtmp, wfd, wpos, rpc, rfd, rbuf, committed, wInputs, ttype, pdir>>
poolVars == <<clientPool, gpc, gname, gclient, nclients, returned, pfatal>>
brkVars == <<bstate, bcounts, bexpired, cpc, cstale, cfailed>>
fetchVars == <<fcfg, fpc, fattempt, fbackoff, flastErr, fwoke, fresult, ctxDone, fwaits, flog, fcancelAt>>
\* the parts that are modelled on their own
modeVars == <<mstr, mres>>
sweepVars == <<sdirs, sdir, spc, si, smatches, sruns, sremoved>>
yInputs == <<ytmpls, yfiles, ynsSecret, ynsStore>>
syncVars == <<yInputs, ynamespace, ypc, yi, yerr, yfetches, ywrote>>
lockVars == <<lpc, lname, lret>>
dupVars == <<vcwd, vsame, vpaths, vpc, verr>>
reloadVars == <<cfg, scheduler, schedJobs, schedResults, syncedCount, status, sigpc, reloaded, everSynced>>
lifeVars == <<lockVars, dupVars, reloadVars>>
utilVars == <<modeVars, sweepVars, syncVars, lifeVars>>
extVars == <<poolVars, brkVars, fetchVars, utilVars>>
\* all but the client pool, all but the circuit breaker, all but the fetch
notPool == <<schedVars, mainVars, fileVars, brkVars, fetchVars, utilVars>>
notBrk == <<schedVars, mainVars, fileVars, poolVars, fetchVars, utilVars>>
notFetch == <<schedVars, mainVars, fileVars, poolVars, brkVars, utilVars>>
\* all but the file modes, all but the sweep
notMode == <<schedVars, mainVars, fileVars, poolVars, brkVars, fetchVars, sweepVars, syncVars, lifeVars>>
notSweep == <<schedVars, mainVars, fileVars, poolVars, brkVars, fetchVars, modeVars, syncVars, lifeVars>>
\* all but the SyncSecret call
notSync == <<schedVars, mainVars, fileVars, poolVars, brkVars, fetchVars, modeVars, sweepVars, lifeVars>>
\* all but the caller of GetLastSyncTime
notLock == <<mainVars, fileVars, poolVars, brkVars, fetchVars, modeVars, sweepVars, syncVars, dupVars, reloadVars>>
\* all but the validation of the file paths
notDup == <<schedVars, mainVars, fileVars, poolVars, brkVars, fetchVars, modeVars, sweepVars, syncVars, lockVars, reloadVars>>
\* all but run()'s reloads and its monitor
notReload == <<schedVars, mainVars, fileVars, poolVars, brkVars, fetchVars, modeVars, sweepVars, syncVars, lockVars, dupVars>>
\* what no operation of the Scheduler and no job goroutine touches
restVars == <<mainVars, fileVars, extVars>>
vars == <<schedVars, mainVars, fileVars, extVars>>

\* A SyncResult: Error is non-nil exactly when Success is false; the
\* timestamp is not modelled.
SyncResult(name, ok) == [SecretName |-> name, Success |-> ok]

\* NewScheduler
InitScheduler ==
  /\ jobs = [n \in Names |-> NoJob]
  /\ secret = [j \in JobIds |-> NoName]
  /\ ticker = [j \in JobIds |-> "none"]
  /\ jobStopCh = [j \in JobIds |-> FALSE]
  /\ stopCh = FALSE
  /\ stopPc = "idle"
  /\ results = <<>>
  /\ resultsClosed = FALSE
  /\ pc = [j \in JobIds |-> "none"]
  /\ attempt = [j \in JobIds |-> 0]
  /\ err = [j \in JobIds |-> FALSE]
  /\ lastSync = [j \in JobIds |-> "zero"]
  /\ ev = "none"

Allocated == {j \in JobIds : secret[j] # NoName}
\* the job object a call of AddSecret allocates
NewJob == Cardinality(Allocated) + 1

\* the process is alive: its goroutines run
Alive == mpc # "exited"

(***************************************************************************)
(* The Scheduler's operations.  AddSecret, RemoveSecret and the loop of    *)
(* Stop hold Scheduler.mu from start to end.                               *)
(***************************************************************************)
\* s.mu.Lock() returns: no reader holds the mutex
MuFree == lpc = "idle"

\* an AddSecret that overwrites the table entry and stops nothing
StopExistingSkipped(n) == {}

\* AddSecret, lines 42-45: the job the name already has is stopped
StopExisting(n) == {jobs[n]} \ {NoJob}

\* j.ticker.Stop() and close(j.stopCh) for the job objects of S
StopJobObjects(S) ==
  /\ ticker' = [k \in JobIds |-> IF k \in S THEN "stopped" ELSE ticker[k]]
  /\ jobStopCh' = [k \in JobIds |-> IF k \in S THEN TRUE ELSE jobStopCh[k]]

\* a runJob that goes to its select without a first sync
RunJobInLoop(j) == "select"

\* runJob, lines 90-92: where the goroutine that AddSecret starts begins:
\* at the call of syncAndReport before the loop
RunJobEntry(j) == "start"

AddSecret(n) ==
  /\ Alive
  /\ MuFree
  /\ NewJob \in JobIds
  /\ LET j == NewJob
         old == StopExisting(n)
     IN /\ jobStopCh' = [k \in JobIds |-> IF k \in old THEN TRUE ELSE jobStopCh[k]]
        /\ ticker' = [k \in JobIds |->
                       IF k = j THEN "active"
                       ELSE IF k \in old THEN "stopped" ELSE ticker[k]]
        /\ secret' = [secret EXCEPT ![j] = n]
        /\ jobs' = [jobs EXCEPT ![n] = j]
        /\ pc' = [pc EXCEPT ![j] = RunJobEntry(j)]
        /\ ev' = IF jobs[n] # NoJob THEN "replaced" ELSE "none"
  /\ UNCHANGED <<stopCh, stopPc, chanVars, attempt, err, lastSync, restVars>>

RemoveSecret(n) ==
  /\ Alive
  /\ MuFree
  /\ IF jobs[n] # NoJob
     THEN /\ StopJobObjects({jobs[n]})
          /\ jobs' = [jobs EXCEPT ![n] = NoJob]
     ELSE UNCHANGED <<ticker, jobStopCh, jobs>>
  /\ ev' = "none"
  /\ UNCHANGED <<secret, stopCh, stopPc, chanVars, goVars, restVars>>

\* Stop, line 72: close(s.stopCh), before the mutex is taken.  A second
\* close would panic; run() stops a Scheduler once.
StopClose ==
  /\ Alive
  /\ stopPc = "idle"
  /\ stopCh' = TRUE
  /\ stopPc' = "closed"
  /\ ev' = "none"
  /\ UNCHANGED <<jobs, secret, ticker, jobStopCh, chanVars, goVars, restVars>>

\* the jobs of the table
InTable == {jobs[n] : n \in Names} \ {NoJob}

\* Stop, lines 74-82: under the mutex every job of the table is stopped and
\* the table is replaced by an empty one; then Stop returns.  Nothing else
\* is done: no goroutine is waited for, the results channel stays open.
StopJobs ==
  /\ Alive
  /\ MuFree
  /\ stopPc = "closed"
  /\ StopJobObjects(InTable)
  /\ jobs' = [n \in Names |-> NoJob]
  /\ stopPc' = "returned"
  /\ ev' = "none"
  /\ UNCHANGED <<secret, stopCh, chanVars, goVars, restVars>>

(***************************************************************************)
(* The goroutine of a job: runJob, and the calls it makes.                 *)
(*   "start"   created by AddSecret, before the first syncAndReport        *)
(*   "fetch"   in SyncSecret, in FetchSecretWithRetry before attempt       *)
(*             number attempt[j]                                           *)
(*   "backoff" in SyncSecret, in FetchSecretWithRetry's wait before a      *)
(*             retry                                                       *)
(*   "report"  in syncAndReport after SyncSecret returned                  *)
(*   "select"  in runJob's select                                          *)
(*   "ticked"  a tick was received, before the call of syncAndReport       *)
(*   "exited"  runJob returned                                             *)
(***************************************************************************)
\* runJob, line 90: ctx is context.Background(), whose Done channel is never
\* ready.
CtxDone(j) == FALSE

\* runJob lines 92 and 97 call syncAndReport, which calls SyncSecret:
\* SyncSecret lines 57-67 resolve the credentials and get the client, and
\* fail without one.
SyncSecretClient(j) ==
  /\ Alive
  /\ pc[j] \in {"start", "ticked"}
  /\ \/ /\ pc' = [pc EXCEPT ![j] = "fetch"]
        /\ attempt' = [attempt EXCEPT ![j] = 0]
        /\ err' = err
     \/ /\ pc' = [pc EXCEPT ![j] = "report"]
        /\ err' = [err EXCEPT ![j] = TRUE]
        /\ attempt' = attempt
  /\ ev' = "none"
  /\ UNCHANGED <<tblVars, chanVars, lastSync, restVars>>

\* FetchSecretWithRetry, lines 107 and 121-127: one attempt.  After a
\* success SyncSecret (lines 84-140) renders the templates and writes the
\* files, and returns nil or the first error.  A failure is followed by the
\* wait of the next iteration, or ends the loop and SyncSecret.
FetchAttempt(j) ==
  /\ Alive
  /\ pc[j] = "fetch"
  /\ \/ /\ pc' = [pc EXCEPT ![j] = "report"]
        /\ attempt' = [attempt EXCEPT ![j] = 0]
        /\ err' = [err EXCEPT ![j] = FALSE]
     \/ /\ pc' = [pc EXCEPT ![j] = "report"]
        /\ attempt' = [attempt EXCEPT ![j] = 0]
        /\ err' = [err EXCEPT ![j] = TRUE]
     \/ /\ attempt[j] < MaxRetries
        /\ pc' = [pc EXCEPT ![j] = "backoff"]
        /\ attempt' = [attempt EXCEPT ![j] = attempt[j] + 1]
        /\ err' = err
     \/ /\ attempt[j] >= MaxRetries
        /\ pc' = [pc EXCEPT ![j] = "report"]
        /\ attempt' = [attempt EXCEPT ![j] = 0]
        /\ err' = [err EXCEPT ![j] = TRUE]
  /\ ev' = "none"
  /\ UNCHANGED <<tblVars, chanVars, lastSync, restVars>>

\* FetchSecretWithRetry, lines 108-119: the wait before a retry ends when
\* the context is done (a cancellation error) or when the delay has passed.
BackoffWait(j) ==
  /\ Alive
  /\ pc[j] = "backoff"
  /\ IF CtxDone(j)
     THEN /\ pc' = [pc EXCEPT ![j] = "report"]
          /\ attempt' = [attempt EXCEPT ![j] = 0]
          /\ err' = [err EXCEPT ![j] = TRUE]
     ELSE /\ pc' = [pc EXCEPT ![j] = "fetch"]
          /\ UNCHANGED <<attempt, err>>
  /\ ev' = "none"
  /\ UNCHANGED <<tblVars, chanVars, lastSync, restVars>>

\* a plain send, which waits for room in the channel
SendBlocking(j) ==
  /\ Len(results) < ResultsCap
  /\ results' = Append(results, SyncResult(secret[j], ~err[j]))
  /\ ev' = "none"

\* a send that makes room by discarding the oldest result
SendDropOldest(j) ==
  /\ results' = IF Len(results) < ResultsCap
                THEN Append(results, SyncResult(secret[j], ~err[j]))
                ELSE Append(Tail(results), SyncResult(secret[j], ~err[j]))
  /\ ev' = IF Len(results) < ResultsCap THEN "none" ELSE "dropped"

\* syncAndReport, lines 120-123: the send on the results channel, in a
\* select with a default case.
SendResult(j) ==
  /\ results' = IF Len(results) < ResultsCap
                THEN Append(results, SyncResult(secret[j], ~err[j]))
                ELSE results
  /\ ev' = IF Len(results) < ResultsCap THEN "none" ELSE "dropped"

\* a runJob that returns after a sync
AfterReportExit(j) == "exited"

\* the goroutine's place once syncAndReport has returned: runJob's select
AfterReport(j) == "select"

\* syncAndReport, lines 109-123
Report(j) ==
  /\ Alive
  /\ pc[j] = "report"
  /\ lastSync' = IF err[j] THEN lastSync ELSE [lastSync EXCEPT ![j] = "set"]
  /\ SendResult(j)
  /\ pc' = [pc EXCEPT ![j] = AfterReport(j)]
  /\ err' = [err EXCEPT ![j] = FALSE]
  /\ UNCHANGED <<tblVars, resultsClosed, attempt, restVars>>

\* runJob, line 96: a tick is received.  The runtime's timer sends ticks
\* while the ticker is active; with the timer channels of Go 1.23 and later
\* (the module is go 1.25.6) no tick is received once ticker.Stop() has
\* returned.
SelectTick(j) ==
  /\ Alive
  /\ pc[j] = "select"
  /\ ticker[j] = "active"
  /\ pc' = [pc EXCEPT ![j] = "ticked"]
  /\ ev' = "none"
  /\ UNCHANGED <<tblVars, chanVars, attempt, err, lastSync, restVars>>

\* runJob, lines 98-101: one of the stop channels is closed
SelectStop(j) ==
  /\ Alive
  /\ pc[j] = "select"
  /\ jobStopCh[j] \/ stopCh
  /\ pc' = [pc EXCEPT ![j] = "exited"]
  /\ ev' = "none"
  /\ UNCHANGED <<tblVars, chanVars, attempt, err, lastSync, restVars>>

\* run(), lines 279-302: the monitor goroutine receives a result
Consume ==
  /\ Alive
  /\ results # <<>>
  /\ results' = Tail(results)
  /\ ev' = "none"
  /\ UNCHANGED <<tblVars, resultsClosed, goVars, restVars>>

\* the steps of a job's goroutine that is not stopped
RunStep(j) ==
  \/ SyncSecretClient(j)
  \/ FetchAttempt(j)
  \/ BackoffWait(j)
  \/ Report(j)
  \/ SelectTick(j)

JobStep(j) ==
  \/ RunStep(j)
  \/ SelectStop(j)

(***************************************************************************)
(* The file writer: WriteFile calls on one target path, and a reader of    *)
(* that path.  The directory maps names to inodes; a rename moves a name,  *)
(* a reader keeps the inode it has opened.                                 *)
(***************************************************************************)
Writers == 1..NumWriters
Target == 0
TmpNames == 1..NumWriters
FileNames == {Target} \cup TmpNames
NoInode == 0
OldInode == 1
Inodes == 1..(NumWriters + 1)
\* MaxSecretSize, scaled down: the largest content WriteFile accepts
MaxSecretSize == ContentLen
\* the content argument of call w, and the content the target starts with
Content(w) == [i \in 1..wsize[w] |-> w]
OldContent == [i \in 1..ContentLen |-> 0]

\* the characters of a path, and the paths of up to MaxPathLen+1 characters
PathChars == {"/", ".", "a", "\\", "?"}
Paths == UNION {[1..n -> PathChars] : n \in 0..(MaxPathLen + 1)}
GoodPath == <<"/", "a">>
FileTypes == {"absent", "regular", "symlink", "special", "dir"}

\* strings.HasPrefix and strings.Contains
HasPrefix(str, prefix) ==
  Len(str) >= Len(prefix) /\ SubSeq(str, 1, Len(prefix)) = prefix
StrContains(str, substr) ==
  \E i \in 1..(Len(str) - Len(substr) + 1) : SubSeq(str, i, i + Len(substr) - 1) = substr

\* filepath.IsAbs of the unix build
IsAbs(path) == HasPrefix(path, <<"/">>)

\* validatePath without its last check
validatePathNoTraversal(path) ==
  IF path = <<>> THEN "empty"
  ELSE IF Len(path) > MaxPathLen THEN "too long"
  ELSE IF HasPrefix(path, <<"\\", "\\", "?", "\\">>) \/ HasPrefix(path, <<"\\", "\\", ".", "\\">>)
       THEN "extended"
  ELSE IF HasPrefix(path, <<"\\", "\\">>) THEN "unc"
  ELSE IF ~IsAbs(path) THEN "relative"
  ELSE "nil"

\* validatePath, lines 201-230: the error it returns ("nil": none)
validatePath(path) ==
  IF path = <<>> THEN "empty"
  ELSE IF Len(path) > MaxPathLen THEN "too long"
  ELSE IF HasPrefix(path, <<"\\", "\\", "?", "\\">>) \/ HasPrefix(path, <<"\\", "\\", ".", "\\">>)
       THEN "extended"
  ELSE IF HasPrefix(path, <<"\\", "\\">>) THEN "unc"
  ELSE IF ~IsAbs(path) THEN "relative"
  ELSE IF StrContains(path, <<".", ".">>) THEN "traversal"
  ELSE "nil"

\* a validateFileType that accepts whatever the path names
validateFileTypeAny(t) == "nil"

\* validateFileType, lines 233-255, from what os.Lstat reports of the path
validateFileType(t) ==
  IF t = "absent" THEN "nil"
  ELSE IF t = "symlink" THEN "symlink"
  ELSE IF t # "regular" /\ t # "dir" THEN "special"
  ELSE "nil"

\* WriteFile, lines 153-165: the error of the three checks ("nil": none)
Validate(w) ==
  IF wsize[w] > MaxSecretSize THEN "size"
  ELSE IF validatePath(cfgPath) # "nil" THEN validatePath(cfgPath)
  ELSE validateFileType(ttype)

\* the files before any call: the target is absent (its directory may be
\* absent too) or is of type t, with the old content
InitTarget(t) ==
  /\ ttype = t
  /\ pdir \in (IF t = "absent" THEN BOOLEAN ELSE {TRUE})
  /\ LET old == IF t = "absent" THEN NoInode ELSE OldInode
     IN /\ fname = [f \in FileNames |-> IF f = Target THEN old ELSE NoInode]
        /\ idata = [i \in Inodes |-> IF i = old THEN OldContent ELSE <<>>]
        /\ committed = IF old = NoInode THEN {} ELSE {OldContent}

InitCalls ==
  /\ wpc = [w \in Writers |-> "idle"]
  /\ wtmp = [w \in Writers |-> Target]
  /\ wfd = [w \in Writers |-> NoInode]
  /\ wpos = [w \in Writers |-> 0]
  /\ rpc = "idle"
  /\ rfd = NoInode
  /\ rbuf = <<>>

\* calls on one valid path whose target is absent or a regular file; the
\* content of a call is of the usual size or too large
InitFiles ==
  /\ \E t \in {"absent", "regular"} : InitTarget(t)
  /\ cfgPath = GoodPath
  /\ wsize \in [Writers -> {ContentLen, MaxSecretSize + 1}]
  /\ InitCalls

\* no file operation is modelled
InitNoFiles ==
  /\ fname = [f \in FileNames |-> NoInode]
  /\ idata = [i \in Inodes |-> <<>>]
  /\ committed = {}
  /\ cfgPath = GoodPath
  /\ wsize = [w \in Writers |-> ContentLen]
  /\ ttype = "absent"
  /\ pdir = TRUE
  /\ InitCalls

\* the temp names of the calls that have drawn one and not returned
TmpInUse == {wtmp[w] : w \in {v \in Writers : wpc[v] \in {"create", "write", "written"}}}

\* one temp name for every call: config.Path + ".tmp"
FixedTmp == {1}

\* WriteFile, line 171: config.Path + ".tmp." + randomString(8).  The eight
\* characters come from crypto/rand (36^8 values): a draw is taken never to
\* equal the name of an existing file or of a call in flight.
RandomTmp == {t \in TmpNames : fname[t] = NoInode /\ t \notin TmpInUse}

\* WriteFile, lines 153-165: the size, the path or the type of the target
\* is refused and the error is returned
WReject(w) ==
  /\ wpc[w] = "idle"
  /\ Validate(w) # "nil"
  /\ wpc' = [wpc EXCEPT ![w] = "failed"]
  /\ UNCHANGED <<fname, idata, wtmp, wfd, wpos, rpc, rfd, rbuf, committed, ttype, pdir, wInputs, schedVars, mainVars, extVars>>

\* WriteFile, lines 167-169: the directory is missing and os.MkdirAll fails
WEnsureDirFail(w) ==
  /\ wpc[w] = "idle"
  /\ Validate(w) = "nil"
  /\ ~pdir
  /\ wpc' = [wpc EXCEPT ![w] = "failed"]
  /\ UNCHANGED <<fname, idata, wtmp, wfd, wpos, rpc, rfd, rbuf, committed, ttype, pdir, wInputs, schedVars, mainVars, extVars>>

\* WriteFile, lines 153-171: the size and the path are valid and the target
\* is absent, a regular file or a directory; ensureDir makes the directory
\* of the path when it is missing; the temp name is drawn.
WBegin(w) ==
  /\ wpc[w] = "idle"
  /\ Validate(w) = "nil"
  /\ pdir' = TRUE
  /\ \E t \in RandomTmp : wtmp' = [wtmp EXCEPT ![w] = t]
  /\ wpc' = [wpc EXCEPT ![w] = "create"]
  /\ UNCHANGED <<fname, idata, wfd, wpos, rpc, rfd, rbuf, committed, ttype, wInputs, schedVars, mainVars, extVars>>

\* os.WriteFile, line 173: open with O_WRONLY|O_CREATE|O_TRUNC
WCreate(w) ==
  /\ wpc[w] = "create"
  /\ LET t == wtmp[w]
         i == IF fname[t] = NoInode THEN w + 1 ELSE fname[t]
     IN /\ fname' = [fname EXCEPT ![t] = i]
        /\ idata' = [idata EXCEPT ![i] = <<>>]
        /\ wfd' = [wfd EXCEPT ![w] = i]
  /\ wpos' = [wpos EXCEPT ![w] = 0]
  /\ wpc' = [wpc EXCEPT ![w] = "write"]
  /\ UNCHANGED <<wtmp, rpc, rfd, rbuf, committed, ttype, pdir, wInputs, schedVars, mainVars, extVars>>

\* the bytes d with byte b written at offset p (counted from 0)
WriteAt(d, p, b) ==
  [k \in 1..(IF Len(d) > p THEN Len(d) ELSE p + 1) |->
     IF k = p + 1 THEN b ELSE IF k <= Len(d) THEN d[k] ELSE 0]

\* os.WriteFile, line 173: the content is written through the descriptor,
\* a part at a time; after the last part the file is closed.
WWrite(w) ==
  /\ wpc[w] = "write"
  /\ wpos[w] < wsize[w]
  /\ idata' = [idata EXCEPT ![wfd[w]] = WriteAt(@, wpos[w], Content(w)[wpos[w] + 1])]
  /\ wpos' = [wpos EXCEPT ![w] = @ + 1]
  /\ wpc' = [wpc EXCEPT ![w] = IF wpos[w] + 1 = wsize[w] THEN "written" ELSE "write"]
  /\ UNCHANGED <<fname, wtmp, wfd, rpc, rfd, rbuf, committed, ttype, pdir, wInputs, schedVars, mainVars, extVars>>

\* WriteFile, lines 173-175: the write fails and the error is returned
WWriteFail(w) ==
  /\ wpc[w] = "write"
  /\ wpc' = [wpc EXCEPT ![w] = "failed"]
  /\ UNCHANGED <<fname, idata, wtmp, wfd, wpos, rpc, rfd, rbuf, committed, ttype, pdir, wInputs, schedVars, mainVars, extVars>>

\* WriteFile, lines 186-189: chown fails, the temp file is removed
WChownFail(w) ==
  /\ wpc[w] = "written"
  /\ fname' = [fname EXCEPT ![wtmp[w]] = NoInode]
  /\ wpc' = [wpc EXCEPT ![w] = "failed"]
  /\ UNCHANGED <<idata, wtmp, wfd, wpos, rpc, rfd, rbuf, committed, ttype, pdir, wInputs, schedVars, mainVars, extVars>>

\* WriteFile, lines 192-197: os.Rename moves the temp name onto the target
\* in one step, replacing whatever entry the target path names, a symbolic
\* link included.  Without a file of the temp name it fails; onto a
\* directory it fails as well, and the temp file is removed.
WRename(w) ==
  /\ wpc[w] = "written"
  /\ IF fname[wtmp[w]] = NoInode
     THEN /\ wpc' = [wpc EXCEPT ![w] = "failed"]
          /\ UNCHANGED <<fname, committed, ttype>>
     ELSE IF ttype = "dir"
     THEN /\ fname' = [fname EXCEPT ![wtmp[w]] = NoInode]
          /\ wpc' = [wpc EXCEPT ![w] = "failed"]
          /\ UNCHANGED <<committed, ttype>>
     ELSE /\ fname' = [fname EXCEPT ![Target] = fname[wtmp[w]], ![wtmp[w]] = NoInode]
          /\ ttype' = "regular"
          /\ committed' = committed \cup {Content(w)}
          /\ wpc' = [wpc EXCEPT ![w] = "done"]
  /\ UNCHANGED <<idata, wtmp, wfd, wpos, rpc, rfd, rbuf, pdir, wInputs, schedVars, mainVars, extVars>>

\* WriteFile, lines 192-195: the rename fails, the temp file is removed
WRenameFail(w) ==
  /\ wpc[w] = "written"
  /\ fname' = [fname EXCEPT ![wtmp[w]] = NoInode]
  /\ wpc' = [wpc EXCEPT ![w] = "failed"]
  /\ UNCHANGED <<idata, wtmp, wfd, wpos, rpc, rfd, rbuf, committed, ttype, pdir, wInputs, schedVars, mainVars, extVars>>

\* a reader of the target path: open, read to the end of the file, close
ROpen ==
  /\ rpc = "idle"
  /\ fname[Target] # NoInode
  /\ rfd' = fname[Target]
  /\ rbuf' = <<>>
  /\ rpc' = "reading"
  /\ UNCHANGED <<fname, idata, wpc, wtmp, wfd, wpos, committed, ttype, pdir, wInputs, schedVars, mainVars, extVars>>

RRead ==
  /\ rpc = "reading"
  /\ IF Len(rbuf) < Len(idata[rfd])
     THEN /\ rbuf' = Append(rbuf, idata[rfd][Len(rbuf) + 1])
          /\ rpc' = rpc
     ELSE /\ rpc' = "eof"
          /\ rbuf' = rbuf
  /\ UNCHANGED <<fname, idata, wpc, wtmp, wfd, wpos, rfd, committed, ttype, pdir, wInputs, schedVars, mainVars, extVars>>

RClose ==
  /\ rpc = "eof"
  /\ rpc' = "idle"
  /\ rfd' = NoInode
  /\ rbuf' = <<>>
  /\ UNCHANGED <<fname, idata, wpc, wtmp, wfd, wpos, committed, ttype, pdir, wInputs, schedVars, mainVars, extVars>>

WriteFile(w) ==
  \/ WReject(w)
  \/ WEnsureDirFail(w)
  \/ WBegin(w)
  \/ WCreate(w)
  \/ WWrite(w)
  \/ WWriteFail(w)
  \/ WChownFail(w)
  \/ WRename(w)
  \/ WRenameFail(w)

(***************************************************************************)
(* run(): the start of the process, and its end.                           *)
(*   "load"     before config.Load (line 123), which validates             *)
(*   "auth"     before the default client is made (lines 208-213)          *)
(*   "add"      in the loop that adds the configured secrets (270-276)     *)
(*   "running"  in the loop that waits for signals (line 378)              *)
(*   "stopping" in shutdownHandler.Shutdown, which calls Scheduler.Stop    *)
(*   "exited"   run() has returned and main() has ended the process        *)
(***************************************************************************)
\* the process of a Scheduler whose callers are not modelled
InitRunning ==
  /\ mpc = "running"
  /\ exitCause = "none"

\* run(), lines 123-126: an invalid configuration ends the process
MainLoad ==
  /\ mpc = "load"
  /\ \/ mpc' = "auth" /\ exitCause' = exitCause
     \/ mpc' = "exited" /\ exitCause' = "config"
  /\ UNCHANGED <<schedVars, fileVars, extVars>>

\* run(), lines 208-213: the default client is made to verify the
\* connectivity; when the store cannot be reached or refuses the
\* credentials, run() returns the error and main() exits with 1.
MainAuth ==
  /\ mpc = "auth"
  /\ \/ mpc' = "add" /\ exitCause' = exitCause
     \/ mpc' = "exited" /\ exitCause' = "auth"
  /\ UNCHANGED <<schedVars, fileVars, extVars>>

\* the configured secrets not added yet
ToAdd == {n \in Names : jobs[n] = NoJob}

\* run(), lines 270-276: the configured secrets are added, each once
MainAddSecret ==
  /\ mpc = "add"
  /\ \E n \in ToAdd : AddSecret(n)

MainStarted ==
  /\ mpc = "add"
  /\ ToAdd = {}
  /\ mpc' = "running"
  /\ UNCHANGED <<exitCause, schedVars, fileVars, extVars>>

\* run(), lines 380-383: SIGTERM or SIGINT
MainShutdown ==
  /\ mpc = "running"
  /\ mpc' = "stopping"
  /\ UNCHANGED <<exitCause, schedVars, fileVars, extVars>>

\* run(), lines 344-348: the registered handler calls scheduler.Stop()
MainStop ==
  /\ mpc = "stopping"
  /\ StopClose \/ StopJobs

\* run(), lines 383-389: Shutdown has returned, run() returns
MainExit ==
  /\ mpc = "stopping"
  /\ stopPc = "returned"
  /\ mpc' = "exited"
  /\ exitCause' = "signal"
  /\ UNCHANGED <<schedVars, fileVars, extVars>>

(***************************************************************************)
(* The client pool of the SecretSyncer: getOrCreateClient, called by the   *)
(* job goroutines through SyncSecret.  A map access takes time: a caller   *)
(* at "lookup" is reading the map, a caller at "store" is writing it.      *)
(*   "idle"    not in getOrCreateClient                                    *)
(*   "lookup"  reading s.clientPool[credName] (line 39)                    *)
(*   "create"  in s.clientFactory(creds) (line 44)                         *)
(*   "store"   writing s.clientPool[credName] (line 50)                    *)
(*   "done"    returning the client (lines 40, 51)                         *)
(*   "err"     returning the factory's error (line 46)                     *)
(***************************************************************************)
Callers == 1..NumCallers
CredNames == {"default", "team-b"}
NoCred == "none"
Clients == 1..MaxClients
NoClient == 0

\* NewSecretSyncer: an empty pool
InitPool ==
  /\ clientPool = [n \in CredNames |-> NoClient]
  /\ gpc = [g \in Callers |-> "idle"]
  /\ gname = [g \in Callers |-> NoCred]
  /\ gclient = [g \in Callers |-> NoClient]
  /\ nclients = 0
  /\ returned = [n \in CredNames |-> {}]
  /\ pfatal = FALSE

\* the other callers that are writing the map
OtherWriters(g) == {h \in Callers \ {g} : gpc[h] = "store"}
\* the other callers that are reading or writing the map
OtherAccessors(g) == {h \in Callers \ {g} : gpc[h] \in {"lookup", "store"}}

\* SyncSecret, line 64: s.getOrCreateClient(credName, creds)
GetCall(g, n) ==
  /\ ~pfatal
  /\ gpc[g] = "idle"
  /\ gpc' = [gpc EXCEPT ![g] = "lookup"]
  /\ gname' = [gname EXCEPT ![g] = n]
  /\ UNCHANGED <<clientPool, gclient, nclients, returned, pfatal>>
  /\ UNCHANGED notPool

\* what a read of the entry of n may give: the entry, or, unsynchronized
\* with a write of that entry in progress, the value being written
ReadOf(g, n) ==
  {clientPool[n]} \cup {gclient[h] : h \in {k \in OtherWriters(g) : gname[k] = n}}

\* getOrCreateClient, lines 39-41: the lookup, and the return on a hit
MapLookup(g) ==
  /\ ~pfatal
  /\ gpc[g] = "lookup"
  /\ \E c \in ReadOf(g, gname[g]) :
       IF c # NoClient
       THEN /\ gclient' = [gclient EXCEPT ![g] = c]
            /\ gpc' = [gpc EXCEPT ![g] = "done"]
       ELSE /\ gclient' = gclient
            /\ gpc' = [gpc EXCEPT ![g] = "create"]
  /\ UNCHANGED <<clientPool, gname, nclients, returned, pfatal>>
  /\ UNCHANGED notPool

\* getOrCreateClient, lines 44-47: the factory makes a client and
\* authenticates it, or fails; the error is returned and nothing is stored
ClientFactory(g) ==
  /\ ~pfatal
  /\ gpc[g] = "create"
  /\ \/ /\ nclients < MaxClients
        /\ nclients' = nclients + 1
        /\ gclient' = [gclient EXCEPT ![g] = nclients + 1]
        /\ gpc' = [gpc EXCEPT ![g] = "store"]
     \/ /\ gpc' = [gpc EXCEPT ![g] = "err"]
        /\ UNCHANGED <<nclients, gclient>>
  /\ UNCHANGED <<clientPool, gname, returned, pfatal>>
  /\ UNCHANGED notPool

\* getOrCreateClient, lines 50-51: the client is stored; a write that is
\* not synchronized with another write of the map may be lost
MapStore(g) ==
  /\ ~pfatal
  /\ gpc[g] = "store"
  /\ \/ clientPool' = [clientPool EXCEPT ![gname[g]] = gclient[g]]
     \/ OtherWriters(g) # {} /\ clientPool' = clientPool
  /\ gpc' = [gpc EXCEPT ![g] = "done"]
  /\ UNCHANGED <<gname, gclient, nclients, returned, pfatal>>
  /\ UNCHANGED notPool

\* getOrCreateClient returns to SyncSecret
GetReturn(g) ==
  /\ ~pfatal
  /\ gpc[g] \in {"done", "err"}
  /\ returned' = IF gpc[g] = "done"
                 THEN [returned EXCEPT ![gname[g]] = @ \cup {gclient[g]}]
                 ELSE returned
  /\ gpc' = [gpc EXCEPT ![g] = "idle"]
  /\ gname' = [gname EXCEPT ![g] = NoCred]
  /\ gclient' = [gclient EXCEPT ![g] = NoClient]
  /\ UNCHANGED <<clientPool, nclients, pfatal>>
  /\ UNCHANGED notPool

\* The runtime detects a map write that is concurrent with another access
\* of the map and ends the process ("fatal error: concurrent map writes",
\* "concurrent map read and map write"); the detection is not guaranteed.
MapFatal ==
  /\ ~pfatal
  /\ \E g \in Callers : gpc[g] = "store" /\ OtherAccessors(g) # {}
  /\ pfatal' = TRUE
  /\ UNCHANGED <<clientPool, gpc, gname, gclient, nclients, returned>>
  /\ UNCHANGED notPool

getOrCreateClient(g) ==
  \/ \E n \in CredNames : GetCall(g, n)
  \/ MapLookup(g)
  \/ ClientFactory(g)
  \/ MapStore(g)
  \/ GetReturn(g)

(***************************************************************************)
(* The circuit breaker of a client: WithCircuitBreaker configures a        *)
(* gobreaker.CircuitBreaker, executeWithBreaker runs the network read      *)
(* through its Execute.  Execute asks beforeRequest, runs the function,    *)
(* and tells afterRequest the outcome; both first bring the state up to    *)
(* date with the clock.                                                    *)
(*   "idle"      not in executeWithBreaker                                 *)
(*   "inflight"  the function (the network read) is running                *)
(*   "ok"        returning the function's result                           *)
(*   "failed"    returning the function's error                            *)
(*   "rejected"  returning the breaker's error; the function did not run   *)
(***************************************************************************)
\* ReadyToTrip, line 189: counts.Requests >= 3 && failureRatio >= 0.6
TripVolume == 3
TripRatioNum == 3
TripRatioDen == 5

NoCounts == [Requests |-> 0, TotalFailures |-> 0, ConsecutiveSuccesses |-> 0]

\* WithCircuitBreaker: a new breaker is closed
InitBreaker ==
  /\ bstate = "closed"
  /\ bcounts = NoCounts
  /\ bexpired = FALSE
  /\ cpc = [c \in Callers |-> "idle"]
  /\ cstale = [c \in Callers |-> FALSE]
  /\ cfailed = [c \in Callers |-> FALSE]

\* WithCircuitBreaker, lines 187-190: the quotient of two small counts is at
\* least 0.6 exactly when 5 * TotalFailures >= 3 * Requests
ReadyToTrip(counts) ==
  /\ counts.Requests >= TripVolume
  /\ counts.TotalFailures * TripRatioDen >= TripRatioNum * counts.Requests

\* currentState(now): a closed breaker whose interval has passed starts a
\* new generation, an open breaker whose timeout has passed is half-open
CurrentState ==
  IF bexpired /\ bstate \in {"closed", "open"}
  THEN [state |-> IF bstate = "open" THEN "half-open" ELSE "closed",
        counts |-> NoCounts, newgen |-> TRUE]
  ELSE [state |-> bstate, counts |-> bcounts, newgen |-> FALSE]

\* a breaker that lets every call through
FailFastNever(cur) == FALSE

\* beforeRequest: ErrOpenState while open, ErrTooManyRequests while
\* half-open with MaxRequests calls counted
FailFast(cur) ==
  \/ cur.state = "open"
  \/ cur.state = "half-open" /\ cur.counts.Requests >= BrkMaxRequests

\* the calls in flight belong to an earlier generation
Outdated(c) == [d \in Callers |-> IF d = c THEN FALSE ELSE cpc[d] = "inflight" \/ cstale[d]]

\* executeWithBreaker, line 207: Execute's beforeRequest, and the start of
\* the function when the breaker lets the call through
BeforeRequest(c) ==
  /\ cpc[c] = "idle"
  /\ LET cur == CurrentState
     IN /\ bstate' = cur.state
        /\ bexpired' = IF cur.newgen THEN FALSE ELSE bexpired
        /\ cstale' = IF cur.newgen THEN Outdated(c) ELSE [cstale EXCEPT ![c] = FALSE]
        /\ IF FailFast(cur)
           THEN /\ cpc' = [cpc EXCEPT ![c] = "rejected"]
                /\ bcounts' = cur.counts
           ELSE /\ cur.counts.Requests < MaxCounted
                /\ cpc' = [cpc EXCEPT ![c] = "inflight"]
                /\ bcounts' = [cur.counts EXCEPT !.Requests = @ + 1]
  /\ UNCHANGED cfailed
  /\ UNCHANGED notBrk

\* afterRequest of a call of the current generation: onSuccess, onFailure
AfterCounted(cur, ok) ==
  IF ok
  THEN LET n == [cur.counts EXCEPT !.ConsecutiveSuccesses = @ + 1]
       IN IF cur.state = "half-open" /\ n.ConsecutiveSuccesses >= BrkMaxRequests
          THEN [state |-> "closed", counts |-> NoCounts, newgen |-> TRUE]
          ELSE [state |-> cur.state, counts |-> n, newgen |-> FALSE]
  ELSE LET n == [cur.counts EXCEPT !.TotalFailures = @ + 1, !.ConsecutiveSuccesses = 0]
       IN IF cur.state = "half-open" \/ (cur.state = "closed" /\ ReadyToTrip(n))
          THEN [state |-> "open", counts |-> NoCounts, newgen |-> TRUE]
          ELSE [state |-> cur.state, counts |-> n, newgen |-> FALSE]

\* executeWithBreaker, lines 207-211: the function returns, Execute's
\* afterRequest counts the outcome unless the generation has changed
AfterRequest(c, ok) ==
  /\ cpc[c] = "inflight"
  /\ cpc' = [cpc EXCEPT ![c] = IF ok THEN "ok" ELSE "failed"]
  /\ cfailed' = [cfailed EXCEPT ![c] = @ \/ ~ok]
  /\ LET cur == CurrentState
         nxt == IF cstale[c] \/ cur.newgen THEN cur ELSE AfterCounted(cur, ok)
     IN /\ bstate' = nxt.state
        /\ bcounts' = nxt.counts
        /\ bexpired' = IF nxt.newgen THEN FALSE ELSE bexpired
        /\ cstale' = IF nxt.newgen THEN Outdated(c) ELSE [cstale EXCEPT ![c] = FALSE]
  /\ UNCHANGED notBrk

\* executeWithBreaker returns to FetchSecret
BreakerReturn(c) ==
  /\ cpc[c] \in {"ok", "failed", "rejected"}
  /\ cpc' = [cpc EXCEPT ![c] = "idle"]
  /\ UNCHANGED <<bstate, bcounts, bexpired, cstale, cfailed>>
  /\ UNCHANGED notBrk

\* BreakerConfig.Interval passes while closed, BreakerConfig.Timeout while
\* open
BreakerExpiry ==
  /\ bstate \in {"closed", "open"}
  /\ ~bexpired
  /\ bexpired' = TRUE
  /\ UNCHANGED <<bstate, bcounts, cpc, cstale, cfailed>>
  /\ UNCHANGED notBrk

executeWithBreaker(c) ==
  \/ BeforeRequest(c)
  \/ \E ok \in BOOLEAN : AfterRequest(c, ok)
  \/ BreakerReturn(c)

(***************************************************************************)
(* One call of FetchSecretWithRetry with a context that can be cancelled.  *)
(*   "idle"      no call                                                   *)
(*   "loop"      at the condition of the for loop (line 107)               *)
(*   "wait"      blocked in the select of the backoff (lines 109-113)      *)
(*   "fetch"     before c.FetchSecret (line 121)                           *)
(*   "returned"  the call has returned                                     *)
(* A goroutine blocked in a select is woken by the first of its cases that *)
(* becomes ready; a case that is ready when the select begins is taken at  *)
(* once.  The timer of time.After is not ready when the select begins.     *)
(***************************************************************************)
Multipliers == {1, 2}
RetryConfigs ==
  [InitialBackoff : 1..MaxDelay, MaxBackoff : 1..MaxDelay,
   Multiplier : Multipliers, MaxRetries : 0..MaxCfgRetries]
NoRetryConfig == [InitialBackoff |-> 1, MaxBackoff |-> 1, Multiplier |-> 1, MaxRetries |-> 0]

\* FetchSecret's outcomes: the data, the error of the read through the
\* breaker (fetcher.go 22-27), and the errors of lines 29-46
ProtocolErrors == {"notfound", "invalid", "nodata", "format"}
FetchErrors == {"read"} \cup ProtocolErrors
NoErr == [kind |-> "nil", at |-> 0]
NoResult == [kind |-> "none", val |-> NoErr]
NoCancel == [inDelay |-> FALSE, fetches |-> 0]

\* no call
InitFetchIdle ==
  /\ fcfg = NoRetryConfig
  /\ fpc = "idle"
  /\ fattempt = 0
  /\ fbackoff = 0
  /\ flastErr = NoErr
  /\ fwoke = "none"
  /\ fresult = NoResult
  /\ ctxDone = FALSE
  /\ fwaits = <<>>
  /\ flog = <<>>
  /\ fcancelAt = NoCancel

\* FetchSecretWithRetry, lines 103-107: lastErr is nil, backoff is
\* config.InitialBackoff, attempt is 0
InitFetchCall ==
  /\ fcfg \in RetryConfigs
  /\ fpc = "loop"
  /\ fattempt = 0
  /\ fbackoff = fcfg.InitialBackoff
  /\ flastErr = NoErr
  /\ fwoke = "none"
  /\ fresult = NoResult
  /\ ctxDone = FALSE
  /\ fwaits = <<>>
  /\ flog = <<>>
  /\ fcancelAt = NoCancel

\* a loop that runs once more
LoopOffByOne(a) == a <= fcfg.MaxRetries + 1

\* line 107: attempt <= config.MaxRetries
LoopContinues(a) == a <= fcfg.MaxRetries

\* a context that is never done
DoneNever(c) == FALSE

\* line 110: case <-ctx.Done() is ready when the context is cancelled
DoneReady(c) == c

\* lines 115-118: backoff = time.Duration(float64(backoff) * config.Multiplier),
\* capped at config.MaxBackoff (the multipliers of the model are whole)
NextBackoff(b) ==
  LET n == b * fcfg.Multiplier
  IN IF n > fcfg.MaxBackoff THEN fcfg.MaxBackoff ELSE n

\* lines 107-113: the loop's condition; past the last attempt the call
\* returns the error that wraps lastErr (line 129); before a retry the
\* select begins with the timer of time.After(backoff)
FetchLoop ==
  /\ fpc = "loop"
  /\ IF ~LoopContinues(fattempt)
     THEN /\ fpc' = "returned"
          /\ fresult' = [kind |-> "exhausted", val |-> flastErr]
          /\ UNCHANGED <<fwoke, fwaits>>
     ELSE IF fattempt > 0
     THEN /\ fpc' = "wait"
          /\ fwaits' = Append(fwaits, fbackoff)
          /\ fwoke' = IF DoneReady(ctxDone) THEN "done" ELSE "none"
          /\ fresult' = fresult
     ELSE /\ fpc' = "fetch"
          /\ UNCHANGED <<fwoke, fwaits, fresult>>
  /\ UNCHANGED <<fcfg, fattempt, fbackoff, flastErr, ctxDone, flog, fcancelAt>>
  /\ UNCHANGED notFetch

\* line 112: the delay has passed and wakes the blocked goroutine
FetchTimer ==
  /\ fpc = "wait"
  /\ fwoke = "none"
  /\ fwoke' = "timer"
  /\ UNCHANGED <<fcfg, fpc, fattempt, fbackoff, flastErr, fresult, ctxDone, fwaits, flog, fcancelAt>>
  /\ UNCHANGED notFetch

\* the owner of the context cancels it; a goroutine blocked in the select
\* is woken by its case <-ctx.Done()
CtxCancel ==
  /\ fpc # "idle"
  /\ ~ctxDone
  /\ ctxDone' = TRUE
  /\ fwoke' = IF fpc = "wait" /\ fwoke = "none" /\ DoneReady(TRUE) THEN "done" ELSE fwoke
  /\ fcancelAt' = [inDelay |-> fpc = "wait" /\ fwoke = "none", fetches |-> Len(flog)]
  /\ UNCHANGED <<fcfg, fpc, fattempt, fbackoff, flastErr, fresult, fwaits, flog>>
  /\ UNCHANGED notFetch

\* lines 109-119: the select ends with the case that woke it
FetchSelect ==
  /\ fpc = "wait"
  /\ fwoke # "none"
  /\ IF fwoke = "done"
     THEN /\ fpc' = "returned"
          /\ fresult' = [kind |-> "cancelled", val |-> NoErr]
          /\ fbackoff' = fbackoff
     ELSE /\ fpc' = "fetch"
          /\ fbackoff' = NextBackoff(fbackoff)
          /\ fresult' = fresult
  /\ fwoke' = "none"
  /\ UNCHANGED <<fcfg, fattempt, flastErr, ctxDone, fwaits, flog, fcancelAt>>
  /\ UNCHANGED notFetch

\* lines 121-126: c.FetchSecret returns the data, which the call returns,
\* or an error, which becomes lastErr before the next round of the loop
FetchSecret(o) ==
  /\ fpc = "fetch"
  /\ flog' = Append(flog, o)
  /\ IF o = "ok"
     THEN /\ fpc' = "returned"
          /\ fresult' = [kind |-> "data", val |-> [kind |-> "ok", at |-> Len(flog) + 1]]
          /\ UNCHANGED <<fattempt, flastErr>>
     ELSE /\ fpc' = "loop"
          /\ flastErr' = [kind |-> o, at |-> Len(flog) + 1]
          /\ fattempt' = fattempt + 1
          /\ fresult' = fresult
  /\ UNCHANGED <<fcfg, fbackoff, fwoke, ctxDone, fwaits, fcancelAt>>
  /\ UNCHANGED notFetch

FetchSecretWithRetry ==
  \/ FetchLoop
  \/ FetchTimer
  \/ FetchSelect
  \/ \E o \in {"ok"} \cup FetchErrors : FetchSecret(o)

\* every part that is modelled on its own, before its first step
(***************************************************************************)
(* File modes: ParseMode and validateMode.  A mode string is a sequence of *)
(* characters; 8 is a character that is not an octal digit.                *)
(***************************************************************************)
ModeChars == 0..8
ModeStrings == UNION {[1..n -> ModeChars] : n \in 0..MaxModeLen}
NoMode == [err |-> "none", mode |-> 0]
ModePerm == 511

\* the bitwise and of two naturals
RECURSIVE BitAnd(_, _)
BitAnd(a, b) ==
  IF a = 0 \/ b = 0 THEN 0
  ELSE (a % 2) * (b % 2) + 2 * BitAnd(a \div 2, b \div 2)

\* strconv.ParseUint(mode, 8, 32): the value of the octal digits, or an
\* error when a character is not an octal digit (the empty string is
\* handled before; 32 bits hold every string of this length)
RECURSIVE OctalValue(_)
OctalValue(str) ==
  IF str = <<>> THEN 0
  ELSE 8 * OctalValue(SubSeq(str, 1, Len(str) - 1)) + str[Len(str)]
IsOctal(str) == \A i \in 1..Len(str) : str[i] < 8

\* validateMode, line 306: perm > 0644, a comparison of numbers
Exceeds(perm) == perm > 420

\* validateMode, lines 291-311: the error it returns ("nil": none)
validateMode(mode) ==
  LET perm == BitAnd(mode, ModePerm)
  IN IF BitAnd(perm, 2) # 0 THEN "world-writable"
     ELSE IF BitAnd(perm, 16) # 0 /\ BitAnd(perm, 4) # 0 THEN "group-writable"
     ELSE IF Exceeds(perm) THEN "too permissive"
     ELSE "nil"

\* ParseMode, lines 269-287: the mode and the error it returns
ParseModeOf(str) ==
  IF str = <<>> THEN [err |-> "nil", mode |-> 384]
  ELSE IF ~IsOctal(str) THEN [err |-> "invalid", mode |-> 0]
  ELSE IF validateMode(OctalValue(str)) # "nil"
       THEN [err |-> validateMode(OctalValue(str)), mode |-> 0]
  ELSE [err |-> "nil", mode |-> OctalValue(str)]

InitModeIdle ==
  /\ mstr = <<>>
  /\ mres = NoMode

InitModeCall ==
  /\ mstr \in ModeStrings
  /\ mres = NoMode

ParseMode ==
  /\ mres = NoMode
  /\ mres' = ParseModeOf(mstr)
  /\ UNCHANGED mstr
  /\ UNCHANGED notMode

(***************************************************************************)
(* The sweep of orphaned temp files.  A file name is a sequence of parts:  *)
(* a base name, the part ".tmp", and "." with the eight characters of      *)
(* randomString, which are letters and digits.                             *)
(***************************************************************************)
BaseNames == {"token", "cert"}
DotTmp == ".tmp"
DotRandom == ".k3x9q2ab"
\* an output file, a file base.tmp, and a temp file of WriteFile for base
SweepNames ==
  {<<b>> : b \in BaseNames} \cup {<<b, DotTmp>> : b \in BaseNames}
    \cup {<<b, DotTmp, DotRandom>> : b \in BaseNames}
\* "": the empty string; "gone": a directory that does not exist; "out":
\* the output directory
DirNames == {"", "gone", "out"}
DirLists == UNION {[1..n -> DirNames] : n \in 0..MaxDirs}
\* "busy": an entry os.Remove fails on
EntryKinds == {"none", "file", "busy"}

\* WriteFile, line 171: config.Path + ".tmp." + randomString(8)
IsWriterTemp(name) ==
  Len(name) >= 3 /\ name[Len(name) - 1] = DotTmp /\ name[Len(name)] = DotRandom

\* filepath.Glob with the pattern dir/*.tmp: the names that end in ".tmp"
GlobMatches(name) == name[Len(name)] = DotTmp

InitSweepIdle ==
  /\ sdirs = <<>>
  /\ sdir = [n \in SweepNames |-> "none"]
  /\ spc = "done"
  /\ si = 1
  /\ smatches = {}
  /\ sruns = 2
  /\ sremoved = {}

InitSweepCall ==
  /\ sdirs \in DirLists
  /\ sdir \in [SweepNames -> EntryKinds]
  /\ spc = "loop"
  /\ si = 1
  /\ smatches = {}
  /\ sruns = 0
  /\ sremoved = {}

\* CleanupOrphanedTempFiles, lines 14-34 and 57: the next directory; an
\* empty name and a directory that does not exist are skipped, the others
\* are globbed; after the last one the sweep returns nil.
SweepDir ==
  /\ spc = "loop"
  /\ IF si > Len(sdirs)
     THEN /\ spc' = "done"
          /\ sruns' = sruns + 1
          /\ UNCHANGED <<si, smatches>>
     ELSE IF sdirs[si] # "out"
     THEN /\ si' = si + 1
          /\ UNCHANGED <<spc, smatches, sruns>>
     ELSE /\ smatches' = {n \in SweepNames : sdir[n] # "none" /\ GlobMatches(n)}
          /\ spc' = "remove"
          /\ UNCHANGED <<si, sruns>>
  /\ UNCHANGED <<sdirs, sdir, sremoved>>
  /\ UNCHANGED notSweep

\* CleanupOrphanedTempFiles, lines 37-49: os.Remove of the next match; a
\* failure is logged and the loop goes on.  The order of the matches does
\* not matter to what is removed.
SweepRemove ==
  /\ spc = "remove"
  /\ IF smatches = {}
     THEN /\ spc' = "loop"
          /\ si' = si + 1
          /\ UNCHANGED <<sdir, smatches, sremoved>>
     ELSE \E n \in smatches :
            /\ smatches' = smatches \ {n}
            /\ IF sdir[n] = "file"
               THEN /\ sdir' = [sdir EXCEPT ![n] = "none"]
                    /\ sremoved' = sremoved \cup {n}
               ELSE UNCHANGED <<sdir, sremoved>>
            /\ UNCHANGED <<spc, si>>
  /\ UNCHANGED <<sdirs, sruns>>
  /\ UNCHANGED notSweep

\* the sweep is run once more on the same directories
SweepAgain ==
  /\ spc = "done"
  /\ sruns < 2
  /\ spc' = "loop"
  /\ si' = 1
  /\ UNCHANGED <<sdirs, sdir, smatches, sruns, sremoved>>
  /\ UNCHANGED notSweep

CleanupOrphanedTempFiles == SweepDir \/ SweepRemove

(***************************************************************************)
(* SyncSecret: fetch, templates, files.  A template name is a number, and  *)
(* the order of the numbers is the order of the names as strings.          *)
(***************************************************************************)
TemplateNames == 1..MaxTemplates
\* a template parses and renders, does not parse, or fails when executed
TemplateKinds == {"ok", "malformed", "execfail"}
\* the listings of a template.data: a YAML mapping, no key twice
Listings ==
  {l \in UNION {[1..n -> [name : TemplateNames, kind : TemplateKinds]] : n \in 0..MaxTemplates} :
     \A a, b \in 1..Len(l) : a # b => l[a].name # l[b].name}
\* a file of the secret: its mode and owner parse, or one of them does not
FileKinds == {"ok", "badmode", "badowner"}
FileLists == UNION {[1..n -> FileKinds] : n \in 0..MaxFiles}
NotWritten == <<"none">>
EmptyContent == <<>>
\* the output of the template of the given name
Rendered(name) == <<"rendered", name>>

\* the keys of the map secret.Template.Data
DataKeys == {ytmpls[k].name : k \in 1..Len(ytmpls)}

\* sort.Strings: the names in ascending order
RECURSIVE SortStrings(_)
SortStrings(S) ==
  IF S = {} THEN <<>>
  ELSE LET least == CHOOSE x \in S : \A y \in S : x <= y
       IN <<least>> \o SortStrings(S \ {least})

\* the names in the order of the configuration
ListedNames == [k \in 1..Len(ytmpls) |-> ytmpls[k].name]

\* SyncSecret, lines 100-105: the sorted names of the templates
SortedTemplateNames == SortStrings(DataKeys)

\* a count check that lets every count pass
CountsDifferNever(rendered, files) == FALSE

\* SyncSecret, line 96: len(rendered) != len(secret.Files)
CountsDiffer(rendered, files) == rendered # files

\* a string key of the YAML configuration: absent, or present with a value
Namespaces == {"", "team-a", "team-b"}
YamlUnset == [set |-> FALSE, val |-> ""]
YamlKeys == {YamlUnset} \cup [set : {TRUE}, val : Namespaces]
NotResolved == "not resolved"

\* the Go string field a YAML key is decoded into (Secret.Namespace,
\* SecretStore.Namespace: string, omitempty): an absent key leaves ""
YamlString(key) == IF key.set THEN key.val ELSE ""

\* Secret.ResolveNamespace, types.go lines 67-72
ResolveNamespace(namespace, globalNamespace) ==
  IF namespace # "" THEN namespace ELSE globalNamespace

InitSyncIdle ==
  /\ ytmpls = <<>>
  /\ yfiles = <<>>
  /\ ynsSecret = YamlUnset
  /\ ynsStore = YamlUnset
  /\ ynamespace = NotResolved
  /\ ypc = "returned"
  /\ yi = 1
  /\ yerr = "nil"
  /\ yfetches = 0
  /\ ywrote = [f \in 1..MaxFiles |-> NotWritten]

InitSyncCall ==
  /\ ytmpls \in Listings
  /\ yfiles \in FileLists
  /\ ynsSecret \in YamlKeys
  /\ ynsStore \in YamlKeys
  /\ ynamespace = NotResolved
  /\ ypc = "client"
  /\ yi = 1
  /\ yerr = "nil"
  /\ yfetches = 0
  /\ ywrote = [f \in 1..MaxFiles |-> NotWritten]

YFail(e) ==
  /\ ypc' = "returned"
  /\ yerr' = e

\* SyncSecret, lines 57-67: the credentials are found and the client is
\* there, or the call returns the error
SyncClient(ok) ==
  /\ ypc = "client"
  /\ IF ok THEN ypc' = "fetch" /\ UNCHANGED yerr ELSE YFail("client")
  /\ UNCHANGED <<yInputs, ynamespace, yi, yfetches, ywrote>>
  /\ UNCHANGED notSync

\* SyncSecret, lines 69-82: the namespace is resolved and
\* FetchSecretWithRetry fetches from it
SyncFetch(ok) ==
  /\ ypc = "fetch"
  /\ ynamespace' = ResolveNamespace(YamlString(ynsSecret), YamlString(ynsStore))
  /\ yfetches' = yfetches + 1
  /\ IF ok THEN ypc' = "templates" /\ UNCHANGED yerr ELSE YFail("fetch")
  /\ UNCHANGED <<yInputs, yi, ywrote>>
  /\ UNCHANGED notSync

\* SyncSecret, lines 84-89: AddTemplate parses every template
SyncAddTemplates ==
  /\ ypc = "templates"
  /\ IF \E k \in 1..Len(ytmpls) : ytmpls[k].kind = "malformed"
     THEN YFail("add template")
     ELSE ypc' = "render" /\ UNCHANGED yerr
  /\ UNCHANGED <<yInputs, ynamespace, yi, yfetches, ywrote>>
  /\ UNCHANGED notSync

\* SyncSecret, lines 91-98: RenderAll executes every template, one output
\* for each name; then the counts are compared
SyncRender ==
  /\ ypc = "render"
  /\ IF \E k \in 1..Len(ytmpls) : ytmpls[k].kind = "execfail"
     THEN YFail("render")
     ELSE IF CountsDiffer(Cardinality(DataKeys), Len(yfiles))
     THEN YFail("count")
     ELSE ypc' = "files" /\ UNCHANGED yerr
  /\ UNCHANGED <<yInputs, ynamespace, yi, yfetches, ywrote>>
  /\ UNCHANGED notSync

\* SyncSecret, lines 107-140: the next file: its mode and owner are parsed,
\* its content is the output of the template at the same position of the
\* sorted names (the empty string without one), WriteFile writes it or
\* fails; after the last file the call returns nil.
SyncFile(ok) ==
  /\ ypc = "files"
  /\ IF yi > Len(yfiles)
     THEN /\ ypc' = "returned"
          /\ UNCHANGED <<yerr, yi, ywrote>>
     ELSE IF yfiles[yi] # "ok"
     THEN /\ YFail(yfiles[yi])
          /\ UNCHANGED <<yi, ywrote>>
     ELSE IF ~ok
     THEN /\ YFail("write")
          /\ UNCHANGED <<yi, ywrote>>
     ELSE /\ ywrote' = [ywrote EXCEPT ![yi] =
                          IF yi <= Len(SortedTemplateNames)
                          THEN Rendered(SortedTemplateNames[yi])
                          ELSE EmptyContent]
          /\ yi' = yi + 1
          /\ UNCHANGED <<ypc, yerr>>
  /\ UNCHANGED <<yInputs, ynamespace, yfetches>>
  /\ UNCHANGED notSync

SyncSecret ==
  \/ \E ok \in BOOLEAN : SyncClient(ok)
  \/ \E ok \in BOOLEAN : SyncFetch(ok)
  \/ SyncAddTemplates
  \/ SyncRender
  \/ \E ok \in BOOLEAN : SyncFile(ok)

(***************************************************************************)
(* GetLastSyncTime: a caller that reads the time of a job's last           *)
(* successful sync while the job goroutines run.  job.lastSync is a        *)
(* time.Time, a struct of several words (wall, ext, loc); the caller       *)
(* copies it word by word.                                                 *)
(*   "idle"    no call                                                     *)
(*   "locked"  s.mu.RLock() has returned (line 128)                        *)
(*   "half"    the first word of j.lastSync has been copied (line 132)     *)
(* The return releases the mutex (line 129, deferred).                     *)
(***************************************************************************)
NoTime == <<"none", "none">>

InitLockIdle ==
  /\ lpc = "idle"
  /\ lname = NoName
  /\ lret = NoTime

(***************************************************************************)
(* config.Validate on a configuration with two file entries, of one secret *)
(* or of two.  validateFile resolves File.Path in place with filepath.Abs  *)
(* and filepath.Clean.                                                     *)
(***************************************************************************)
CfgPathChars == {"/", ".", "a"}
CfgPaths == UNION {[1..n -> CfgPathChars] : n \in 0..MaxCfgPathLen}
Cwds == {<<"/">>, <<"/", "a">>}

\* strings.Split(path, "/"): the pieces between the separators
RECURSIVE Split(_)
Split(path) ==
  IF path = <<>> THEN << <<>> >>
  ELSE LET r == Split(Tail(path))
       IN IF Head(path) = "/" THEN << <<>> >> \o r
          ELSE << <<Head(path)>> \o r[1] >> \o Tail(r)

\* filepath.Clean's pass over the elements: empty elements and "." are
\* dropped, ".." removes the element before it, is dropped at the root and
\* kept at the start of a relative path
RECURSIVE CleanParts(_, _, _)
CleanParts(parts, out, rooted) ==
  IF parts = <<>> THEN out
  ELSE LET c == Head(parts)
           rest == Tail(parts)
       IN IF c = <<>> \/ c = <<".">> THEN CleanParts(rest, out, rooted)
          ELSE IF c # <<".", ".">> THEN CleanParts(rest, Append(out, c), rooted)
          ELSE IF out # <<>> /\ out[Len(out)] # <<".", ".">>
               THEN CleanParts(rest, SubSeq(out, 1, Len(out) - 1), rooted)
          ELSE IF rooted THEN CleanParts(rest, out, rooted)
          ELSE CleanParts(rest, Append(out, c), rooted)

RECURSIVE JoinParts(_)
JoinParts(parts) ==
  IF parts = <<>> THEN <<>>
  ELSE IF Len(parts) = 1 THEN parts[1]
  ELSE parts[1] \o <<"/">> \o JoinParts(Tail(parts))

\* filepath.Clean of the unix build
Clean(path) ==
  LET j == JoinParts(CleanParts(Split(path), <<>>, IsAbs(path)))
  IN IF IsAbs(path) THEN <<"/">> \o j
     ELSE IF j = <<>> THEN <<".">> ELSE j

\* filepath.Abs of the unix build: an absolute path is cleaned, a relative
\* one is joined to the working directory
Abs(path, cwd) ==
  IF IsAbs(path) THEN Clean(path) ELSE Clean(cwd \o <<"/">> \o path)

\* validateFile, lines 486-491: the path the entry holds afterwards
ResolvePath(path, cwd) == Clean(Abs(path, cwd))

\* validateNoDuplicatePaths, lines 572-594: the map is keyed by File.Path
\* as the entries hold it when Validate calls the check (line 283)
validateNoDuplicatePaths(paths) == paths[1] = paths[2]

InitDupIdle ==
  /\ vcwd = <<"/">>
  /\ vsame = FALSE
  /\ vpaths = <<GoodPath, GoodPath>>
  /\ vpc = "idle"
  /\ verr = "nil"

InitDupCall ==
  /\ vcwd \in Cwds
  /\ vsame \in BOOLEAN
  /\ vpaths \in CfgPaths \X CfgPaths
  /\ vpc = "call"
  /\ verr = "nil"

\* Validate, lines 282-291: the duplicate check, then validateSecret for
\* each secret, whose validateFile (lines 481-493) rejects an empty path
\* and resolves the others in place.  validateFilePath accepts every
\* resolved path.  Of one secret both entries are resolved before the
\* error of either is returned only when the first has none.
ValidateConfig ==
  /\ vpc = "call"
  /\ vpc' = "returned"
  /\ IF validateNoDuplicatePaths(vpaths)
     THEN /\ verr' = IF vsame THEN "duplicate in secret" ELSE "duplicate"
          /\ vpaths' = vpaths
     ELSE IF vpaths[1] = <<>>
     THEN /\ verr' = "path is required"
          /\ vpaths' = vpaths
     ELSE IF vpaths[2] = <<>>
     THEN /\ verr' = "path is required"
          /\ vpaths' = <<ResolvePath(vpaths[1], vcwd), vpaths[2]>>
     ELSE /\ verr' = "nil"
          /\ vpaths' = <<ResolvePath(vpaths[1], vcwd), ResolvePath(vpaths[2], vcwd)>>
  /\ UNCHANGED <<vcwd, vsame, notDup>>

(***************************************************************************)
(* run() after its start: the monitor goroutine (main.go 279-302), the     *)
(* callback of the configuration watcher (305-340) and the signal loop     *)
(* (377-441).  A Scheduler is its job table and its results channel; a job *)
(* is the secret's name and refresh interval, and one step of it is a      *)
(* whole syncAndReport.  The watcher is enabled (WATCH_CONFIG=true).       *)
(***************************************************************************)
Configs == [Names -> 0..MaxInterval]
NoSecrets == [n \in Names |-> 0]
\* what the configuration file holds when it is loaded
ConfigFiles ==
  [kind : {"ok"}, secrets : Configs] \cup [kind : {"unreadable", "malformed"}, secrets : {NoSecrets}]
NoReload == "none"
Schedulers == 1..MaxScheds
\* line 280: `range scheduler.Results()` evaluates its operand once, when
\* the goroutine starts: the channel of the first Scheduler
MonitorChannel == 1

\* len(cfg.Secrets)
NumSecrets(c) == Cardinality({n \in Names : c[n] # 0})

\* a Load that accepts every file
LoadUnchecked(file) == "nil"

\* config.Load, part_016 11-29: ReadFile, yaml.Unmarshal, Validate (which
\* asks for at least one secret, validator.go 273-275)
Load(file) ==
  IF file.kind = "unreadable" THEN "read"
  ELSE IF file.kind = "malformed" THEN "parse"
  ELSE IF NumSecrets(file.secrets) = 0 THEN "invalid"
  ELSE "nil"

\* NewStatus, part_007 22-27
NewStatus == [Ready |-> FALSE, SecretCount |-> 0, SyncedCount |-> 0]

\* Status.SetReady, part_007 31-50
SetReady(secretCount, synced) ==
  [Ready |-> synced > 0, SecretCount |-> secretCount, SyncedCount |-> synced]

InitReload(cs) ==
  /\ cfg \in cs
  /\ scheduler = 1
  /\ schedJobs = cfg
  /\ schedResults = [g \in Schedulers |-> <<>>]
  /\ syncedCount = 0
  /\ status = NewStatus
  /\ sigpc = "loop"
  /\ reloaded = NoReload
  /\ everSynced = FALSE

InitReloadIdle == InitReload({[n \in Names |-> IF n = "A" THEN 1 ELSE 0]})

\* runJob and syncAndReport of a job of the current Scheduler, part_008
\* 89-124: one sync, whose result is sent unless the channel is full
JobSync(n, ok) ==
  /\ sigpc = "loop"
  /\ schedJobs[n] # 0
  /\ schedResults' =
       [schedResults EXCEPT ![scheduler] =
          IF Len(@) < ResultsCap THEN Append(@, SyncResult(n, ok)) ELSE @]
  /\ everSynced' = (everSynced \/ ok)
  /\ reloaded' = NoReload
  /\ UNCHANGED <<cfg, scheduler, schedJobs, syncedCount, status, sigpc, notReload>>

\* the monitor goroutine, main.go 279-302: one iteration of its loop
Monitor ==
  /\ sigpc = "loop"
  /\ schedResults[MonitorChannel] # <<>>
  /\ LET result == Head(schedResults[MonitorChannel])
         count == IF result.Success THEN syncedCount + 1 ELSE syncedCount
     IN /\ count <= MaxSynced
        /\ syncedCount' = count
        /\ status' = SetReady(NumSecrets(cfg), count)
  /\ schedResults' = [schedResults EXCEPT ![MonitorChannel] = Tail(@)]
  /\ reloaded' = NoReload
  /\ UNCHANGED <<cfg, scheduler, schedJobs, sigpc, everSynced, notReload>>

\* the signal loop on SIGHUP, main.go 391-439: Load and Validate, and with
\* either's error `continue`; else Stop, cfg = newCfg, a new Scheduler and
\* AddSecret for each secret
ReloadSignal(file) ==
  /\ sigpc = "loop"
  /\ reloaded' = IF Load(file) # "nil" THEN "sighup failed" ELSE "sighup"
  /\ IF Load(file) # "nil"
     THEN UNCHANGED <<cfg, scheduler, schedJobs>>
     ELSE /\ scheduler < MaxScheds
          /\ cfg' = file.secrets
          /\ scheduler' = scheduler + 1
          /\ schedJobs' = file.secrets
  /\ UNCHANGED <<schedResults, syncedCount, status, sigpc, everSynced, notReload>>

\* the watcher's handleChange, part_017 75-92, and run()'s callback, main.go
\* 308-328: with Load's error onError is called; else AddSecret for each
\* secret of the new configuration
WatchChange(file) ==
  /\ sigpc = "loop"
  /\ reloaded' = IF Load(file) # "nil" THEN "watch failed" ELSE "watch"
  /\ IF Load(file) # "nil"
     THEN UNCHANGED schedJobs
     ELSE schedJobs' = [n \in Names |->
                          IF file.secrets[n] # 0 THEN file.secrets[n] ELSE schedJobs[n]]
  /\ UNCHANGED <<cfg, scheduler, schedResults, syncedCount, status, sigpc, everSynced, notReload>>

\* the signal loop on a shutdown signal, main.go 380-389
ShutdownSignal ==
  /\ sigpc = "loop"
  /\ sigpc' = "exited"
  /\ reloaded' = NoReload
  /\ UNCHANGED <<cfg, scheduler, schedJobs, schedResults, syncedCount, status, everSynced, notReload>>

InitLifeIdle == InitLockIdle /\ InitDupIdle /\ InitReloadIdle

\* GetLastSyncTime, line 128
GetLock(n) ==
  /\ Alive
  /\ lpc = "idle"
  /\ lpc' = "locked"
  /\ lname' = n
  /\ UNCHANGED <<lret, schedVars, notLock>>

\* GetLastSyncTime, lines 131-134: the lookup; without a job the zero time
\* and false are returned, with one the copy of j.lastSync begins
GetLookup ==
  /\ lpc = "locked"
  /\ IF jobs[lname] = NoJob
     THEN /\ lpc' = "idle"
          /\ lret' = <<"absent", "absent">>
     ELSE /\ lpc' = "half"
          /\ lret' = <<lastSync[jobs[lname]], "none">>
  /\ UNCHANGED <<lname, schedVars, notLock>>

\* GetLastSyncTime, line 132: the rest of the copy, and the return
GetCopy ==
  /\ lpc = "half"
  /\ lpc' = "idle"
  /\ lret' = <<lret[1], lastSync[jobs[lname]]>>
  /\ UNCHANGED <<lname, schedVars, notLock>>

GetLastSyncTime ==
  \/ \E n \in Names : GetLock(n)
  \/ GetLookup
  \/ GetCopy

InitUtil == InitModeIdle /\ InitSweepIdle /\ InitSyncIdle /\ InitLifeIdle

InitExt ==
  /\ InitPool
  /\ InitBreaker
  /\ InitFetchIdle
  /\ InitUtil

(***************************************************************************)
(* The Scheduler with its callers: any caller may add, remove and stop.    *)
(***************************************************************************)
\* The names the callers use: the entries of the job table are independent
\* of each other, and one name is replaced, removed and stopped.
CallerNames == {"A"}

Init ==
  /\ InitScheduler
  /\ InitRunning
  /\ InitNoFiles
  /\ InitExt

Next ==
  \/ \E n \in CallerNames : AddSecret(n)
  \/ \E n \in CallerNames : RemoveSecret(n)
  \/ StopClose
  \/ StopJobs
  \/ \E j \in JobIds : JobStep(j)
  \/ Consume

Spec == Init /\ [][Next]_vars

(***************************************************************************)
(* config.Validate on every pair of file paths.                            *)
(***************************************************************************)
InitDupSpec ==
  /\ InitScheduler
  /\ InitRunning
  /\ InitNoFiles
  /\ InitPool
  /\ InitBreaker
  /\ InitFetchIdle
  /\ InitModeIdle
  /\ InitSweepIdle
  /\ InitSyncIdle
  /\ InitLockIdle
  /\ InitDupCall
  /\ InitReloadIdle

NextDup == ValidateConfig

SpecDup == InitDupSpec /\ [][NextDup]_vars

(***************************************************************************)
(* run() with every valid configuration at its start and every content of  *)
(* the configuration file at a reload.                                     *)
(***************************************************************************)
InitReloadSpec ==
  /\ InitScheduler
  /\ InitRunning
  /\ InitNoFiles
  /\ InitPool
  /\ InitBreaker
  /\ InitFetchIdle
  /\ InitModeIdle
  /\ InitSweepIdle
  /\ InitSyncIdle
  /\ InitLockIdle
  /\ InitDupIdle
  /\ InitReload({c \in Configs : NumSecrets(c) > 0})

NextReload ==
  \/ \E n \in Names, ok \in BOOLEAN : JobSync(n, ok)
  \/ Monitor
  \/ \E file \in ConfigFiles : ReloadSignal(file)
  \/ \E file \in ConfigFiles : WatchChange(file)
  \/ ShutdownSignal

SpecReload == InitReloadSpec /\ [][NextReload]_vars

(***************************************************************************)
(* The Scheduler with a caller of GetLastSyncTime: secrets are added and   *)
(* removed, the job goroutines run, and the time of the last sync is read. *)
(***************************************************************************)
NextLastSync ==
  \/ \E n \in CallerNames : AddSecret(n)
  \/ \E n \in CallerNames : RemoveSecret(n)
  \/ \E j \in JobIds : JobStep(j)
  \/ Consume
  \/ GetLastSyncTime

SpecLastSync == Init /\ [][NextLastSync]_vars

(***************************************************************************)
(* The Scheduler with the secrets of a configuration, each added once, and *)
(* never stopped.  The goroutine of the job of secret "B" is scheduled     *)
(* fairly; nothing is assumed of the goroutine of "A" or of the monitor.   *)
(***************************************************************************)
AddOnce(n) ==
  /\ jobs[n] = NoJob
  /\ AddSecret(n)

NextIndep ==
  \/ \E n \in Names : AddOnce(n)
  \/ \E j \in JobIds : RunStep(j)
  \/ Consume

StepOf(n) == \E j \in JobIds : secret[j] = n /\ RunStep(j)

FairSpec == Init /\ [][NextIndep]_vars /\ WF_vars(StepOf("B"))

(***************************************************************************)
(* The process: run() from its start to its end, with the job goroutines   *)
(* and the monitor.                                                        *)
(***************************************************************************)
InitMain ==
  /\ InitScheduler
  /\ mpc = "load"
  /\ exitCause = "none"
  /\ InitNoFiles
  /\ InitExt

NextMain ==
  \/ MainLoad
  \/ MainAuth
  \/ MainAddSecret
  \/ MainStarted
  \/ MainShutdown
  \/ MainStop
  \/ MainExit
  \/ \E j \in JobIds : JobStep(j)
  \/ Consume

SpecMain == InitMain /\ [][NextMain]_vars

(***************************************************************************)
(* The file writer: concurrent WriteFile calls and a reader.               *)
(***************************************************************************)
InitWriter ==
  /\ InitScheduler
  /\ InitRunning
  /\ InitFiles
  /\ InitExt

NextWriter ==
  \/ \E w \in Writers : WriteFile(w)
  \/ ROpen
  \/ RRead
  \/ RClose

SpecWriter == InitWriter /\ [][NextWriter]_vars

(***************************************************************************)
(* The file writer: one WriteFile call, over every path, content size and  *)
(* kind of target.                                                         *)
(***************************************************************************)
TheCaller == 1

InitValidate ==
  /\ InitScheduler
  /\ InitRunning
  /\ InitExt
  /\ InitCalls
  /\ \E t \in FileTypes : InitTarget(t)
  /\ cfgPath \in Paths
  /\ \E n \in 1..(MaxSecretSize + 1) :
       wsize = [w \in Writers |-> IF w = TheCaller THEN n ELSE ContentLen]

NextValidate == WriteFile(TheCaller)

SpecValidate == InitValidate /\ [][NextValidate]_vars

(***************************************************************************)
(* The client pool with concurrent callers.                                *)
(***************************************************************************)
InitPoolSpec ==
  /\ InitScheduler
  /\ InitRunning
  /\ InitNoFiles
  /\ InitExt

NextPool ==
  \/ \E g \in Callers : getOrCreateClient(g)
  \/ MapFatal

SpecPool == InitPoolSpec /\ [][NextPool]_vars

(***************************************************************************)
(* The circuit breaker of one client with concurrent callers.              *)
(***************************************************************************)
InitBreakerSpec ==
  /\ InitScheduler
  /\ InitRunning
  /\ InitNoFiles
  /\ InitExt

NextBreaker ==
  \/ \E c \in Callers : executeWithBreaker(c)
  \/ BreakerExpiry

SpecBreaker == InitBreakerSpec /\ [][NextBreaker]_vars

(***************************************************************************)
(* One call of FetchSecretWithRetry, for every configuration.              *)
(***************************************************************************)
InitFetchSpec ==
  /\ InitScheduler
  /\ InitRunning
  /\ InitNoFiles
  /\ InitPool
  /\ InitBreaker
  /\ InitFetchCall
  /\ InitUtil

NextFetch ==
  \/ FetchSecretWithRetry
  \/ CtxCancel

SpecFetch == InitFetchSpec /\ [][NextFetch]_vars

(***************************************************************************)
(* ParseMode on every mode string.                                         *)
(***************************************************************************)
InitModeSpec ==
  /\ InitScheduler
  /\ InitRunning
  /\ InitNoFiles
  /\ InitPool
  /\ InitBreaker
  /\ InitFetchIdle
  /\ InitModeCall
  /\ InitSweepIdle
  /\ InitSyncIdle
  /\ InitLifeIdle

NextMode == ParseMode

SpecMode == InitModeSpec /\ [][NextMode]_vars

(***************************************************************************)
(* The sweep, run twice in a row, on every content of the directory.       *)
(***************************************************************************)
InitSweepSpec ==
  /\ InitScheduler
  /\ InitRunning
  /\ InitNoFiles
  /\ InitPool
  /\ InitBreaker
  /\ InitFetchIdle
  /\ InitModeIdle
  /\ InitSweepCall
  /\ InitSyncIdle
  /\ InitLifeIdle

NextSweep ==
  \/ CleanupOrphanedTempFiles
  \/ SweepAgain

SpecSweep == InitSweepSpec /\ [][NextSweep]_vars

(***************************************************************************)
(* One SyncSecret call on every secret of up to MaxTemplates templates and *)
(* MaxFiles files.                                                         *)
(***************************************************************************)
InitSyncSpec ==
  /\ InitScheduler
  /\ InitRunning
  /\ InitNoFiles
  /\ InitPool
  /\ InitBreaker
  /\ InitFetchIdle
  /\ InitModeIdle
  /\ InitSweepIdle
  /\ InitSyncCall
  /\ InitLifeIdle

NextSync == SyncSecret

SpecSync == InitSyncSpec /\ [][NextSync]_vars

(***************************************************************************)
(* The claims of the specification.                                        *)
(***************************************************************************)

\* C1: for all interleavings of WriteFile calls on the same target path, a
\* concurrent reader of that path never observes a byte sequence other than
\* one of the committed full contents (the old complete content or a new
\* complete content, never a partial write): what a reader has read up to
\* the end of the file is a committed content, and the file the target path
\* names holds a committed content at every moment.
AtomicReplace ==
  /\ rpc = "eof" => rbuf \in committed
  /\ fname[Target] # NoInode => idata[fname[Target]] \in committed

\* a reader has read a new complete content to its end while another
\* WriteFile call is in the middle of writing its temp file
AtomicReplaceWitness ==
  /\ rpc = "eof"
  /\ \E w \in Writers :
       /\ rbuf = Content(w)
       /\ wpc[w] = "done"
       /\ \E v \in Writers \ {w} : wpc[v] = "write" /\ wpos[v] = 1

NoSyncAfterStop ==
  [][\A j \in JobIds :
       (jobStopCh[j] /\ pc[j] \in {"start", "ticked"}) => pc'[j] \in {"start", "ticked", "exited"}]_vars

\* C4: calling AddSecret for a name that already has a job replaces that
\* job in one step: the old job's timer is stopped before the new one
\* starts, so at no time two jobs have an active timer for the same secret
\* name, and the only active timers are those of the jobs in the table.
OneTimerPerName ==
  /\ \A j, k \in JobIds :
       (j # k /\ secret[j] # NoName /\ secret[j] = secret[k])
         => ~(ticker[j] = "active" /\ ticker[k] = "active")
  /\ \A j \in JobIds : ticker[j] = "active" => jobs[secret[j]] = j

\* AddSecret has just replaced a job: the old timer is stopped, the new active
OneTimerPerNameWitness ==
  /\ ev = "replaced"
  /\ \E j, k \in JobIds :
       /\ j # k /\ secret[j] = secret[k] /\ secret[j] # NoName
       /\ ticker[j] = "stopped" /\ jobStopCh[j]
       /\ ticker[k] = "active" /\ jobs[secret[k]] = k

\* C5: Scheduler.Stop blocks until all per-job goroutines have observed
\* cancellation and exited: when Stop returns, no job goroutine is still
\* running and no sync invocation is still in progress.
StopWaitsForJobs ==
  [][(stopPc = "closed" /\ stopPc' = "returned")
       => \A j \in JobIds : pc'[j] \in {"none", "exited"}]_vars

\* C6: a process-wide shutdown cancels every job's context, so a retry
\* backoff wait that is in progress at shutdown aborts instead of running to
\* the end of its delay: after Stop has returned in the shutdown, no backoff
\* wait ends in a further fetch attempt.
ShutdownAbortsBackoff ==
  [][\A j \in JobIds :
       (mpc = "stopping" /\ stopPc = "returned" /\ pc[j] = "backoff") => pc'[j] # "fetch"]_vars

\* C7: Scheduler.Stop stops every job and closes the result stream: after
\* Stop the results channel is closed, so a consumer ranging over Results()
\* terminates.
StopClosesResults ==
  stopPc = "returned" => resultsClosed

\* C8: pushing a SyncResult never blocks the firing job: results go to a
\* bounded channel, and when the channel is full the newest result is
\* dropped and the job proceeds to its next tick.  The channel never holds
\* more than its capacity; a job at its report can always take the step; the
\* step appends the result when there is room and leaves the channel as it
\* is when there is none, and the job goes on to wait for its tick.
NonBlockingPush ==
  /\ [](Len(results) <= ResultsCap)
  /\ [](\A j \in JobIds : pc[j] = "report" => ENABLED Report(j))
  /\ [][\A j \in JobIds :
          (pc[j] = "report" /\ pc'[j] # "report") =>
            /\ pc'[j] = "select"
            /\ results' = IF Len(results) < ResultsCap
                          THEN Append(results, SyncResult(secret[j], ~err[j]))
                          ELSE results]_vars

\* a result has just been dropped on the full channel and the job waits for
\* its next tick
NonBlockingPushWitness ==
  /\ ev = "dropped"
  /\ Len(results) = ResultsCap
  /\ \E j \in JobIds : pc[j] = "select" /\ ticker[j] = "active"

\* C9: every sync error is contained to the single sync attempt that
\* produced it and is reported via a SyncResult with Success=false; the job
\* keeps running and the next scheduled tick for that secret performs a
\* fresh attempt.  The report of a failed sync pushes a result with Success
\* false for its secret (on the non-blocking channel of C8), leaves the last
\* sync time, the process and every other job as they are, and the job
\* waits for its tick; a waiting job with an active timer can tick, and a
\* sync starts with no error and no retry counted.
ErrorsContained ==
  /\ [][\A j \in JobIds :
          (pc[j] = "report" /\ err[j] /\ pc'[j] # "report") =>
            /\ pc'[j] = "select"
            /\ Len(results) < ResultsCap =>
                 results' = Append(results, SyncResult(secret[j], FALSE))
            /\ lastSync' = lastSync
            /\ mpc' = mpc
            /\ \A k \in JobIds \ {j} : pc'[k] = pc[k] /\ err'[k] = err[k]]_vars
  /\ [](\A j \in JobIds :
          (pc[j] = "select" /\ ticker[j] = "active") => ENABLED SelectTick(j))
  /\ [](\A j \in JobIds :
          pc[j] \in {"start", "ticked"} => (~err[j] /\ attempt[j] = 0))

\* a job whose sync has failed has reported the failure, which is in the
\* channel, and has received its next tick
ErrorsContainedWitness ==
  \E j \in JobIds :
    /\ pc[j] = "ticked"
    /\ lastSync[j] = "zero"
    /\ \E i \in 1..Len(results) : results[i] = SyncResult(secret[j], FALSE)

\* C10: the only conditions that terminate the process are configuration
\* validation failures discovered before any job starts; no authentication,
\* fetch, template or file-safety error terminates the process: a process
\* that has ended was ended by its configuration or by a signal.
OnlyConfigIsFatal ==
  mpc = "exited" => exitCause \in {"config", "signal"}

\* C11: the client pool's cache is guarded by its own mutex: for any
\* interleaving of concurrent SyncSecret calls from different jobs, no two
\* goroutines read or write the cache map at the same time; in particular
\* no goroutine writes the map while another reads or writes it.
PoolAccessExclusive ==
  \A g \in Callers : gpc[g] = "store" => OtherAccessors(g) = {}

\* C12: for each credential set name, a resolution constructs and
\* authenticates a new client if and only if no earlier resolution for that
\* name has succeeded: after the first success every resolution returns the
\* same cached client without re-authenticating, and a failed
\* authentication is returned and not cached.  So all the clients ever
\* returned for a name are one and the same client.
OneClientPerName ==
  \A n \in CredNames : Cardinality(returned[n]) <= 1

\* C13: once the circuit breaker has tripped to OPEN (at least 3 requests
\* with a failure ratio of at least 0.6 within the interval), every call
\* made before the timeout elapses fails without invoking the underlying
\* network read: the breaker opens from closed only with such counts, and a
\* call that begins while the breaker is open and its timeout has not
\* passed is rejected, the function is not run and the breaker stays open.
OpenFailsFast ==
  /\ [][(bstate = "closed" /\ bstate' = "open") =>
          \E c \in Callers :
            /\ cpc[c] = "inflight" /\ cpc'[c] = "failed"
            /\ bcounts.Requests >= TripVolume
            /\ (bcounts.TotalFailures + 1) * TripRatioDen >= TripRatioNum * bcounts.Requests]_vars
  /\ [][\A c \in Callers :
          (bstate = "open" /\ ~bexpired /\ cpc[c] = "idle" /\ cpc'[c] # "idle") =>
            /\ cpc'[c] = "rejected"
            /\ bstate' = "open"
            /\ \A d \in Callers : cpc'[d] = "inflight" => cpc[d] = "inflight"]_vars

\* the breaker is open, its timeout has not passed, and a call has been
\* rejected
OpenFailsFastWitness ==
  /\ bstate = "open"
  /\ ~bexpired
  /\ \E c \in Callers : cpc[c] = "rejected"

\* b to the power k
RECURSIVE Pow(_, _)
Pow(b, k) == IF k = 0 THEN 1 ELSE b * Pow(b, k - 1)

\* C14: between fetch attempts FetchSecretWithRetry waits an exponentially
\* growing delay: the wait before retry number k (k = 0 for the first
\* retry) equals min(InitialBackoff * Multiplier^k, MaxBackoff), so no wait
\* exceeds MaxBackoff.
ExponentialBackoff ==
  \A k \in 0..(Len(fwaits) - 1) :
    LET d == fcfg.InitialBackoff * Pow(fcfg.Multiplier, k)
    IN /\ fwaits[k + 1] = IF d < fcfg.MaxBackoff THEN d ELSE fcfg.MaxBackoff
       /\ fwaits[k + 1] <= fcfg.MaxBackoff

\* C15: FetchSecretWithRetry makes at most MaxRetries+1 fetch attempts,
\* returns the data of the first successful attempt, and if every attempt
\* fails returns an error wrapping the last failure.
BoundedAttempts ==
  /\ Len(flog) <= fcfg.MaxRetries + 1
  /\ \A i \in 1..Len(flog) :
       flog[i] = "ok" =>
         /\ i = Len(flog)
         /\ fpc = "returned"
         /\ fresult = [kind |-> "data", val |-> [kind |-> "ok", at |-> i]]
  /\ fresult.kind = "data" => (flog # <<>> /\ flog[Len(flog)] = "ok")
  /\ (fpc = "returned" /\ Len(flog) = fcfg.MaxRetries + 1 /\ flog[Len(flog)] # "ok") =>
       fresult = [kind |-> "exhausted",
                  val |-> [kind |-> flog[Len(flog)], at |-> Len(flog)]]
  /\ fresult.kind = "exhausted" => Len(flog) = fcfg.MaxRetries + 1

\* every attempt of a call with the most retries has failed, and the call
\* has returned the error that wraps the last failure
BoundedAttemptsWitness ==
  /\ fcfg.MaxRetries = MaxCfgRetries
  /\ fpc = "returned"
  /\ Len(flog) = MaxCfgRetries + 1
  /\ fresult.kind = "exhausted"
  /\ fresult.val.at = MaxCfgRetries + 1

\* C16: if the context is cancelled while FetchSecretWithRetry is waiting
\* in a backoff delay, the wait aborts immediately and the call returns a
\* cancellation error without making any further fetch attempt: from the
\* cancellation on the call makes no fetch attempt, it can return at once
\* whether or not the delay passes, and what it returns is the
\* cancellation error.
CancelAbortsWait ==
  (ctxDone /\ fcancelAt.inDelay) =>
    /\ Len(flog) = fcancelAt.fetches
    /\ fpc \in {"wait", "returned"}
    /\ fpc = "wait" => (fwoke = "done" /\ ENABLED FetchSelect)
    /\ fpc = "returned" => fresult = [kind |-> "cancelled", val |-> NoErr]

\* the context was cancelled during the delay before the last retry, after
\* failed attempts, and the call has returned the cancellation error
CancelAbortsWaitWitness ==
  /\ ctxDone
  /\ fcancelAt.inDelay
  /\ fcancelAt.fetches = MaxCfgRetries
  /\ fpc = "returned"
  /\ fresult.kind = "cancelled"

\* C17: a fetch-protocol error (secret not found, missing data, wrong
\* nesting of the response) is not retried: FetchSecretWithRetry surfaces
\* it after the first attempt, without any backoff wait or further attempt.
ProtocolErrorNotRetried ==
  \A i \in 1..Len(flog) :
    flog[i] \in ProtocolErrors =>
      /\ i = Len(flog)
      /\ Len(fwaits) < i
      /\ fpc = "returned" => fresult.val = [kind |-> flog[i], at |-> i]

\* the inputs the claim names: a path that contains "..", a relative path,
\* a path longer than the maximum, a content larger than the limit
BadInput ==
  \/ StrContains(cfgPath, <<".", ".">>)
  \/ ~IsAbs(cfgPath)
  \/ Len(cfgPath) > MaxPathLen
  \/ wsize[TheCaller] > MaxSecretSize

\* C18: for every WriteFile input rejected by validation (a path containing
\* "..", a relative path, a path longer than the maximum, or content
\* larger than the size limit) WriteFile returns an error and the
\* filesystem is unchanged: no directory is created, no temp file is
\* created, the target is untouched.
RejectedInputNoEffect ==
  /\ [](BadInput =>
          /\ wpc[TheCaller] \in {"idle", "failed"}
          /\ wpc[TheCaller] = "idle" => ENABLED WReject(TheCaller))
  /\ [][BadInput => UNCHANGED <<fname, idata, pdir, ttype>>]_vars

\* the call has returned an error for an absolute path of valid length
\* that contains "..", with a content of valid size, and the missing
\* directory of the path has not been made
RejectedInputNoEffectWitness ==
  /\ wpc[TheCaller] = "failed"
  /\ StrContains(cfgPath, <<".", ".">>)
  /\ IsAbs(cfgPath)
  /\ Len(cfgPath) <= MaxPathLen
  /\ wsize[TheCaller] <= MaxSecretSize
  /\ ~pdir
  /\ \A f \in FileNames : fname[f] = NoInode

\* the types of a target that is neither absent nor a regular file
NonRegular == {"symlink", "special", "dir"}

\* C19: if the existing target path is a symbolic link or any other
\* non-regular file, WriteFile fails closed: it returns an error, and neither
\* the entry at the target path nor the link's target is modified.
FailsClosed ==
  /\ [](ttype \in NonRegular =>
          /\ wpc[TheCaller] # "done"
          /\ fname[Target] = OldInode
          /\ idata[OldInode] = OldContent)
  /\ [][(ttype \in NonRegular) => (ttype' = ttype)]_vars

\* the call on a valid path that names a symbolic link, with a content of
\* valid size, has returned an error
FailsClosedWitness ==
  /\ ttype = "symlink"
  /\ ~BadInput
  /\ validatePath(cfgPath) = "nil"
  /\ wpc[TheCaller] = "failed"
  /\ fname[Target] = OldInode

\* C20: on any failure after the temp file has been created (write, chown
\* or rename failure) the temp file is removed before WriteFile returns the
\* error: no temp file created by a WriteFile call remains once that call
\* has returned.
TempFileRemoved ==
  \A w \in Writers :
    (wpc[w] \in {"failed", "done"} /\ wfd[w] # NoInode) =>
      \A t \in TmpNames : fname[t] # wfd[w]

\* C21: every permission mode accepted by mode validation is no more
\* permissive than 0644: it grants no permission bit outside owner
\* read/write and group/other read; world-writable modes and modes that are
\* both group-writable and world-readable are rejected.
ModeCeiling ==
  mres.err = "nil" =>
    /\ BitAnd(BitAnd(mres.mode, ModePerm), ModePerm - 420) = 0
    /\ BitAnd(mres.mode, 2) = 0
    /\ ~(BitAnd(mres.mode, 16) # 0 /\ BitAnd(mres.mode, 4) # 0)

\* C22: output files are never written with world-readable permissions: no
\* mode that ParseMode hands to the writer has the other-read bit set.
NeverWorldReadable ==
  mres.err = "nil" => BitAnd(mres.mode, 4) = 0

\* the directory "out" is among the directories of the sweep
SweepsOut == \E k \in 1..Len(sdirs) : sdirs[k] = "out"

\* C23: the startup sweep removes every leftover temporary file in the
\* known output directories that matches the writer's random-suffix
\* temp-file pattern (<path>.tmp.<random>): once a sweep of the directory
\* has returned, no such file that can be removed is left in it.
SweepRemovesOrphans ==
  (sruns >= 1 /\ SweepsOut) =>
    \A n \in SweepNames : IsWriterTemp(n) => sdir[n] # "file"

\* a second sweep finds no file it removes
SecondSweepNoOp ==
  (sruns >= 1 /\ spc = "remove") => \A n \in smatches : sdir[n] # "file"

\* C24: running the orphaned-temp-file sweep twice in a row on the same
\* directory set is a no-op the second time (the second run finds no file
\* it removes), and the sweep never removes a file that is not a temp file
\* of the writer.
SweepIdempotent ==
  /\ SecondSweepNoOp
  /\ \A n \in sremoved : IsWriterTemp(n)

ListedPairing ==
  Len(ytmpls) = Len(yfiles) =>
    \A i \in 1..Len(yfiles) :
      ywrote[i] # NotWritten => ywrote[i] = Rendered(ytmpls[i].name)

\* C27: if the number of rendered templates differs from the number of
\* output files, SyncSecret fails the sync and writes none of the secret's
\* files.
CountMismatchFails ==
  Len(ytmpls) # Len(yfiles) =>
    /\ \A i \in 1..MaxFiles : ywrote[i] = NotWritten
    /\ ypc = "returned" => yerr # "nil"

\* a secret with fewer templates than files, all of them good: the sync
\* has fetched and rendered, and has returned the error of the count check
CountMismatchFailsWitness ==
  /\ 0 < Len(ytmpls)
  /\ Len(ytmpls) < Len(yfiles)
  /\ \A k \in 1..Len(ytmpls) : ytmpls[k].kind = "ok"
  /\ \A i \in 1..Len(yfiles) : yfiles[i] = "ok"
  /\ yfetches = 1
  /\ ypc = "returned"
  /\ yerr = "count"

\* the secret passes validateSecret: at least one template, at least one
\* file, as many templates as files
ValidSecret == Len(ytmpls) > 0 /\ Len(ytmpls) = Len(yfiles)

\* C28: malformed template syntax is rejected at template registration, and
\* that rejection happens before any secret is fetched: a secret whose
\* template is malformed never causes a fetch from the store.
MalformedBeforeFetch ==
  (ValidSecret /\ \E k \in 1..Len(ytmpls) : ytmpls[k].kind = "malformed") =>
    /\ yfetches = 0
    /\ ypc = "returned" => yerr # "nil"

\* C29: namespace resolution distinguishes an explicit empty per-secret
\* namespace from an unset one: an explicit empty string resolves to the
\* root namespace (the empty namespace) even when a store-wide namespace is
\* set, while an unset namespace resolves to the store-wide default.
ExplicitEmptyIsRoot ==
  (ValidSecret /\ ynamespace # NotResolved) =>
    ynamespace = IF ynsSecret.set THEN ynsSecret.val ELSE YamlString(ynsStore)

\* C30: AddSecret creates a job and performs one immediate synchronous sync
\* invocation before the job enters its periodic loop, so the first sync
\* attempt for a newly added secret does not wait for the refresh interval:
\* the goroutine of a new job begins at a sync, which it can start at once,
\* whatever its ticker does, and it comes to wait for a tick only when a
\* sync has been reported.
ImmediateFirstSync ==
  /\ [](\A j \in JobIds : pc[j] = "start" => ENABLED SyncSecretClient(j))
  /\ [][\A j \in JobIds :
          /\ (pc[j] = "none" /\ pc'[j] # "none") => pc'[j] = "start"
          /\ (pc[j] = "start" /\ pc'[j] # "start") => pc'[j] \in {"fetch", "report"}
          /\ (pc'[j] = "select" /\ pc[j] # "select") => pc[j] = "report"]_vars

\* a job is waiting in its loop, its ticker active, after a successful
\* sync whose result is in the channel
ImmediateFirstSyncWitness ==
  \E j \in JobIds :
    /\ pc[j] = "select"
    /\ lastSync[j] = "set"
    /\ ticker[j] = "active"
    /\ results # <<>>

\* C37: if SyncSecret returns an error, none of that secret's output files
\* has been modified by that invocation: a failure on a later file (invalid
\* mode or owner, write error) never leaves earlier files of the same
\* secret already rewritten.
FailedSyncWritesNothing ==
  (ValidSecret /\ ypc = "returned" /\ yerr # "nil") =>
    \A i \in 1..MaxFiles : ywrote[i] = NotWritten

\* C35: failures of one secret's fetches never cause another secret's fetch
\* to be short-circuited by the circuit breaker, even when both secrets
\* share one client: a call is rejected by the breaker only when the
\* caller's own reads have failed before.
BreakerPerSecret ==
  \A c \in Callers : cpc[c] = "rejected" => cfailed[c]

\* C36: once RemoveSecret(name), a replacing AddSecret(name) or Stop has
\* returned, the stopped job performs no further output-file write and
\* pushes no further result, even if a sync was in flight when the job was
\* stopped: a goroutine whose stop channel is closed neither completes a
\* SyncSecret with written files nor adds a result to the channel.
StoppedJobSilent ==
  [][\A j \in JobIds :
       jobStopCh[j] =>
         /\ ~(pc[j] = "fetch" /\ pc'[j] = "report" /\ ~err'[j])
         /\ ~(pc[j] = "report" /\ Len(results') > Len(results))]_vars

\* C38: every read and write of a job's last-successful-sync timestamp
\* happens under the scheduler mutex, so GetLastSyncTime never reads
\* concurrently with the job goroutine writing it: while a caller of
\* GetLastSyncTime holds the mutex to read the timestamp of a job, that
\* timestamp is not written.
LastSyncUnderMutex ==
  [][(lpc # "idle" /\ jobs[lname] # NoJob) =>
       lastSync'[jobs[lname]] = lastSync[jobs[lname]]]_vars

\* C33: in every configuration accepted by validation, no two file entries
\* (of different secrets or of the same secret) denote the same path once
\* paths are resolved.
NoDuplicatePaths ==
  (vpc = "returned" /\ verr = "nil") => vpaths[1] # vpaths[2]

\* C40: the reported synced count never exceeds the number of configured
\* secrets: it counts distinct secrets, not successful results.
SyncedCountBounded ==
  status.SyncedCount <= status.SecretCount

\* C31: readiness is ready once at least one configured secret has synced
\* successfully at least once, and is not ready before any sync has
\* succeeded: the status is ready only after a successful sync, and when a
\* sync has succeeded and the monitor has no result left to receive, the
\* status is ready.
ReadyOnceSynced ==
  /\ status.Ready => everSynced
  /\ (everSynced /\ sigpc = "loop" /\ schedResults[MonitorChannel] = <<>>) => status.Ready

\* the secrets of the configuration a file holds that Load and Validate
\* accept
GoodFile(file) == file.kind = "ok" /\ \E n \in Names : file.secrets[n] # 0

\* C32: a configuration reload stops all jobs and rebuilds the job set from
\* the new specs: after the reload the running jobs are exactly the secrets
\* of the new configuration, each with its new refresh interval (removed
\* secrets stop syncing, new secrets start).
ReloadRebuildsJobs ==
  [][\A file \in ConfigFiles :
       (GoodFile(file) /\ (ReloadSignal(file) \/ WatchChange(file))) =>
         schedJobs' = file.secrets]_vars

\* C34: a reload whose new configuration fails to load or validate leaves
\* the running job set and the current configuration unchanged: no job is
\* stopped, added or replaced, and the process keeps running.
FailedReloadKeepsJobs ==
  [][\A file \in ConfigFiles :
       (~GoodFile(file) /\ (ReloadSignal(file) \/ WatchChange(file))) =>
         /\ schedJobs' = schedJobs
         /\ cfg' = cfg
         /\ scheduler' = scheduler
         /\ schedResults' = schedResults
         /\ sigpc' = "loop"]_vars

\* a reload has failed while jobs were running and results were pending,
\* by the signal or by the watcher
FailedReloadKeepsJobsWitness ==
  /\ reloaded \in {"sighup failed", "watch failed"}
  /\ \E n \in Names : schedJobs[n] # 0
  /\ schedResults[scheduler] # <<>>
  /\ sigpc = "loop"

\* C39: after a SIGHUP reload has rebuilt the scheduler, the results of the
\* rebuilt jobs are still consumed by the result monitor: a result waits
\* only in the channel the monitor receives from.
RebuiltJobsMonitored ==
  \A g \in Schedulers : schedResults[g] # <<>> => g = MonitorChannel

====
